---- MODULE Spec2Model ----
(***************************************************************************)
(* State-machine model of the multi-index B+Tree engine of UDB             *)
(* (src/UDBE/udb_btree.cpp, class udb::MultiIndex), one index of one file. *)
(*                                                                         *)
(* Abstraction of the file: a block position is the ordinal of the block   *)
(* in the file (position 0 is the header/descriptor area, the first block  *)
(* appended after it has position 1).  A node block carries its used       *)
(* entries as a sequence of (key, child) records plus the two sibling      *)
(* links; a leaf block carries key, dataPos and the two chain links.       *)
(* Free blocks stay in the block maps, exactly as they stay in the file.   *)
(* Keys are of type CHARACTER (one unsigned byte).                         *)
(***************************************************************************)
EXTENDS Integers, Sequences, FiniteSets, TLC

VARIABLES
    nodes,      \* node blocks of the file: position -> [items, next, prev]
    leaves,     \* leaf blocks of the file: position -> [key, dataPos, next, prev]
    info,       \* m_indexInfo[m_currentIndex]
    storedInfo, \* the descriptor of the active index as last written to the file
    position,   \* m_positions[m_currentIndex]
    currentIndex, \* m_currentIndex
    inactive,   \* the entries of m_indexInfo, m_positions and of the stored
                \* descriptors for the indexes other than m_currentIndex
    fileSize,   \* position one past the last block of the file
    errorCode,  \* File::m_errorCode
    damaged,    \* positions whose stored checksum no longer matches (environment)
    last,       \* history: the last call that changes the index, its arguments and result
    model,      \* history: what the calls so far were and what they should have left
    nops,       \* number of append / deleteKey / deleteCurrent calls made so far
    owner,      \* the thread holding m_indexMutex, 0 when it is free
    threads,    \* per thread: where it stands in its call, the call and its result
    heap,       \* the heap file: its size, m_header.firstHolesTablePos, and the
                \* history of the allocations handed out and not freed
    probe       \* a key of the index's key type as the caller passes it, byte by
                \* byte, the key fillEOFKey writes, and what compare returns

vars == <<nodes, leaves, info, storedInfo, position, currentIndex, inactive, fileSize,
          errorCode, damaged, last, model, nops, owner, threads, heap, probe>>

----------------------------------------------------------------------------
(* Bounds of the exploration *)

MaxKey == 4
MaxOps == 5
MaxItems == 3
BulkNodes == 2
BulkLeaves == 2
MaxFaultOps == 2
MaxDamaged == 1
NumThreads == 2
MaxThreadCalls == 2
MinItems == 3
NumIndexes == 2
MaxMultiOps == 3
MaxMultiKey == 3
MaxAllocs == 3
MaxRecordSize == 2
BlockKeySize == 2
FillItems == 4
MaxFillOps == 9
MaxFillKey == 6
BulkKeys == 50
MaxSearchKey == 5

(* Program constants *)

INVALID_POSITION == -1
UNIQUE == 1
ALLOW_DELETE == 2
END_OF_FILE == 1
BEGIN_OF_FILE == 2
EOFKey == 255
HeapFileHeaderSize == 11

Keys == 1..MaxKey
AttrChoices == {ALLOW_DELETE, UNIQUE + ALLOW_DELETE}

HasBit(word, bit) == (word \div bit) % 2 = 1

----------------------------------------------------------------------------
(* The machine state handled by the operators below *)

Cur == [nodes |-> nodes, leaves |-> leaves, info |-> info, stored |-> storedInfo,
        pos |-> position, size |-> fileSize, err |-> errorCode, bad |-> damaged,
        cur |-> currentIndex, rest |-> inactive]

Ok(S) == S.err = "OK"

Throw(S, code) == IF Ok(S) THEN [S EXCEPT !.err = code] ELSE S

ResetNodeBlock == [items |-> <<>>, next |-> INVALID_POSITION, prev |-> INVALID_POSITION]

ResetLeaveBlock == [key |-> 0, dataPos |-> 0, next |-> INVALID_POSITION,
                    prev |-> INVALID_POSITION]

ZeroItem == [key |-> 0, child |-> 0]

ResetPositionValue == [currentLeave |-> INVALID_POSITION, nextLeave |-> INVALID_POSITION,
                       prevLeave |-> INVALID_POSITION, currentDataPos |-> INVALID_POSITION,
                       state |-> 0]

ConstructedInfo == [attributes |-> 0, maxItems |-> 0, freeCreateNodes |-> 0,
                    freeCreateLeaves |-> 0, freeNode |-> INVALID_POSITION,
                    freeLeave |-> INVALID_POSITION, numLevels |-> 0,
                    rootNode |-> INVALID_POSITION, firstLeave |-> INVALID_POSITION,
                    lastLeave |-> INVALID_POSITION]


(* The file holds NumIndexes indexes, numbered from 0 as m_currentIndex is. *)
IndexNos == 0..(NumIndexes - 1)

(* One entry of m_indexInfo and m_positions, with the descriptor in the file *)
ConstructedIndex == [info |-> ConstructedInfo, stored |-> ConstructedInfo,
                     pos |-> ResetPositionValue]

(* With([x \in {e} |-> body]) is body with x naming the value of e: an
   intermediate result of a function that the code holds in a local variable. *)
With(f) == f[CHOOSE a \in DOMAIN f : TRUE]

----------------------------------------------------------------------------
(* Key comparison and search inside a node *)

Compare(key1, key2) == IF key1 > key2 THEN 1 ELSE IF key1 < key2 THEN -1 ELSE 0

RECURSIVE BinarySearchLoop(_, _, _, _)
BinarySearchLoop(items, key, left, right) ==
    IF left < right
    THEN LET mid == left + ((right - left) \div 2)
         IN IF Compare(key, items[mid].key) <= 0
            THEN BinarySearchLoop(items, key, left, mid)
            ELSE BinarySearchLoop(items, key, mid + 1, right)
    ELSE left

binarySearchNode(items, key) ==
    IF Len(items) = 0
    THEN [keyNo |-> 1, exactMatch |-> FALSE]
    ELSE With([left \in {BinarySearchLoop(items, key, 1, Len(items))} |->
            [keyNo |-> left, exactMatch |-> Compare(key, items[left].key) = 0]])

(* Entry itemNo of a node buffer; a slot outside the used entries of a reset
   block holds zero bytes. *)
ItemAt(items, itemNo) ==
    IF itemNo \in 1..Len(items) THEN items[itemNo] ELSE ZeroItem

insertItem(items, itemNo, key, childPos) ==
    IF itemNo = 0 THEN items
    ELSE LET numItems == Len(items)
             insertAt == IF itemNo >= numItems + 1 THEN numItems + 1 ELSE itemNo
         IN SubSeq(items, 1, insertAt - 1) \o <<[key |-> key, child |-> childPos]>>
            \o SubSeq(items, insertAt, numItems)

deleteItem(items, itemNo) ==
    LET numItems == Len(items)
    IN IF itemNo < numItems /\ itemNo > 0
       THEN SubSeq(items, 1, itemNo - 1) \o SubSeq(items, itemNo + 1, numItems)
       ELSE IF numItems > 0 THEN SubSeq(items, 1, numItems - 1) ELSE items

----------------------------------------------------------------------------
(* Block I/O through the checksum boundary *)

NodeReadable(S, pos) == pos \in DOMAIN S.nodes /\ pos \notin S.bad

LeaveReadable(S, pos) == pos \in DOMAIN S.leaves /\ pos \notin S.bad

(* readNode / readLeave: a block whose checksum does not match latches BAD_DATA
   and throws.  A read of a position that holds no block of that kind falls
   outside the modelled layout of the file and is marked as such. *)
readNode(S, pos) ==
    IF NodeReadable(S, pos) THEN S
    ELSE IF pos \in DOMAIN S.nodes THEN Throw(S, "BAD_DATA")
    ELSE Throw(S, "OUT_OF_LAYOUT")

NodeAt(S, pos) == IF pos \in DOMAIN S.nodes THEN S.nodes[pos] ELSE ResetNodeBlock

readLeave(S, pos) ==
    IF LeaveReadable(S, pos) THEN S
    ELSE IF pos \in DOMAIN S.leaves THEN Throw(S, "BAD_DATA")
    ELSE Throw(S, "OUT_OF_LAYOUT")

LeaveAt(S, pos) == IF pos \in DOMAIN S.leaves THEN S.leaves[pos] ELSE ResetLeaveBlock

(* writeNode / writeLeave recompute the checksum and store the block.  A write
   to a position that holds no block of that kind falls outside the modelled
   layout. *)
writeNode(S, node, pos) ==
    IF ~Ok(S) THEN S
    ELSE IF pos \in DOMAIN S.nodes
         THEN [S EXCEPT !.nodes[pos] = node, !.bad = @ \ {pos}]
         ELSE Throw(S, "OUT_OF_LAYOUT")

writeLeave(S, leave, pos) ==
    IF ~Ok(S) THEN S
    ELSE IF pos \in DOMAIN S.leaves
         THEN [S EXCEPT !.leaves[pos] = leave, !.bad = @ \ {pos}]
         ELSE Throw(S, "OUT_OF_LAYOUT")

----------------------------------------------------------------------------
(* Free-list allocators *)

createNodes(S, numNodes) ==
    IF ~Ok(S) \/ numNodes <= 0 THEN S
    ELSE LET first == S.size
             lastNew == first + numNodes - 1
             created == [p \in first..lastNew |->
                            [ResetNodeBlock EXCEPT
                                !.next = IF p < lastNew THEN p + 1 ELSE S.info.freeNode]]
         IN [S EXCEPT !.nodes = created @@ @, !.size = lastNew + 1,
                      !.info.freeNode = first]

createLeaves(S, numLeaves) ==
    IF ~Ok(S) \/ numLeaves <= 0 THEN S
    ELSE LET first == S.size
             lastNew == first + numLeaves - 1
             created == [p \in first..lastNew |->
                            [ResetLeaveBlock EXCEPT
                                !.next = IF p < lastNew THEN p + 1 ELSE S.info.freeLeave]]
         IN [S EXCEPT !.leaves = created @@ @, !.size = lastNew + 1,
                      !.info.freeLeave = first]

(* allocateNode / allocateLeave: [S |-> state after, pos |-> allocated position] *)
allocateNode(S) ==
    With([S1 \in {IF S.info.freeNode = INVALID_POSITION
                  THEN createNodes(S, S.info.freeCreateNodes) ELSE S} |->
    With([S2 \in {readNode(S1, S1.info.freeNode)} |->
        [S |-> IF Ok(S2)
               THEN [S2 EXCEPT !.info.freeNode = NodeAt(S2, S1.info.freeNode).next]
               ELSE S2,
         pos |-> S1.info.freeNode]])])

allocateLeave(S) ==
    With([S1 \in {IF S.info.freeLeave = INVALID_POSITION
                  THEN createLeaves(S, S.info.freeCreateLeaves) ELSE S} |->
    With([S2 \in {readLeave(S1, S1.info.freeLeave)} |->
        [S |-> IF Ok(S2)
               THEN [S2 EXCEPT !.info.freeLeave = LeaveAt(S2, S1.info.freeLeave).next]
               ELSE S2,
         pos |-> S1.info.freeLeave]])])

freeNode(S, nodePos) ==
    With([S1 \in {writeNode(S, [ResetNodeBlock EXCEPT !.next = S.info.freeNode], nodePos)} |->
        IF Ok(S1) THEN [S1 EXCEPT !.info.freeNode = nodePos] ELSE S1])

freeLeave(S, leavePos) ==
    With([S1 \in {writeLeave(S, [ResetLeaveBlock EXCEPT !.next = S.info.freeLeave],
                             leavePos)} |->
        IF Ok(S1) THEN [S1 EXCEPT !.info.freeLeave = leavePos] ELSE S1])

writeNewNode(S, node) ==
    With([a \in {allocateNode(S)} |->
        [S |-> writeNode(a.S, node, a.pos), pos |-> a.pos]])

writeNewLeave(S, leave) ==
    With([a \in {allocateLeave(S)} |->
        [S |-> writeLeave(a.S, leave, a.pos), pos |-> a.pos]])

createFirstNode(S) ==
    With([l \in {writeNewLeave(S, [key |-> EOFKey, dataPos |-> INVALID_POSITION,
                                   next |-> INVALID_POSITION,
                                   prev |-> INVALID_POSITION])} |->
    With([S1 \in {IF Ok(l.S) THEN [l.S EXCEPT !.info.firstLeave = l.pos,
                                               !.info.lastLeave = l.pos]
                  ELSE l.S} |->
    With([n \in {writeNewNode(S1, [ResetNodeBlock EXCEPT
                                      !.items = <<[key |-> EOFKey, child |-> l.pos]>>])} |->
        IF Ok(n.S) THEN [n.S EXCEPT !.info.rootNode = n.pos] ELSE n.S])])])

(* writeInfo / writeAllInfo with one index: the descriptor goes to the file *)
writeInfo(S) == IF Ok(S) THEN [S EXCEPT !.stored = S.info] ELSE S

initIndex(S, attributes, numItems, freeCreateNodes, freeCreateLeaves) ==
    IF ~Ok(S) THEN S
    ELSE With([S0 \in {writeInfo([S EXCEPT !.info = [ConstructedInfo EXCEPT
                                     !.attributes = attributes, !.maxItems = numItems,
                                     !.freeCreateNodes = freeCreateNodes,
                                     !.freeCreateLeaves = freeCreateLeaves,
                                     !.firstLeave = S.info.firstLeave,
                                     !.lastLeave = S.info.lastLeave]])} |->
         With([S1 \in {createFirstNode(createLeaves(createNodes(S0, freeCreateNodes),
                                                    freeCreateLeaves))} |->
            IF Ok(S1) THEN [S1 EXCEPT !.info.numLevels = 1] ELSE S1])])

----------------------------------------------------------------------------
(* Cursor *)

(* setPosition with END_OF_FILE raised only where the chain has no next leaf *)
setPositionNoSentinel(S, currentLeave, nextLeave, prevLeave, dataPos) ==
    IF ~Ok(S) THEN S
    ELSE LET bof == prevLeave = INVALID_POSITION \/ currentLeave = S.info.firstLeave
             eof == nextLeave = INVALID_POSITION
         IN [S EXCEPT !.pos = [currentLeave |-> currentLeave, nextLeave |-> nextLeave,
                               prevLeave |-> prevLeave, currentDataPos |-> dataPos,
                               state |-> (IF eof THEN END_OF_FILE ELSE 0)
                                         + (IF bof THEN BEGIN_OF_FILE ELSE 0)]]

setPosition(S, currentLeave, nextLeave, prevLeave, dataPos) ==
    IF ~Ok(S) THEN S
    ELSE LET bof == prevLeave = INVALID_POSITION \/ currentLeave = S.info.firstLeave
             eof == nextLeave = INVALID_POSITION \/ nextLeave = S.info.lastLeave
         IN [S EXCEPT !.pos = [currentLeave |-> currentLeave, nextLeave |-> nextLeave,
                               prevLeave |-> prevLeave, currentDataPos |-> dataPos,
                               state |-> (IF eof THEN END_OF_FILE ELSE 0)
                                         + (IF bof THEN BEGIN_OF_FILE ELSE 0)]]

setPositionFromLeave(S, leavePos, leave) ==
    setPosition(S, leavePos, leave.next, leave.prev, leave.dataPos)

resetPosition(S) == IF Ok(S) THEN [S EXCEPT !.pos = ResetPositionValue] ELSE S

isEOFInternal(S) == IF ~Ok(S) THEN TRUE ELSE HasBit(S.pos.state, END_OF_FILE)

isBOFInternal(S) == IF ~Ok(S) THEN TRUE ELSE HasBit(S.pos.state, BEGIN_OF_FILE)

(* bringLeave: [S |-> state after, ret |-> data position, key |-> key copied out] *)
bringLeave(S, leavePos) ==
    IF leavePos = INVALID_POSITION
    THEN [S |-> S, ret |-> INVALID_POSITION, key |-> 0]
    ELSE With([S1 \in {readLeave(S, leavePos)} |->
         With([S2 \in {setPositionFromLeave(S1, leavePos, LeaveAt(S1, leavePos))} |->
            [S |-> S2, ret |-> S2.pos.currentDataPos,
             key |-> LeaveAt(S1, leavePos).key]])])

----------------------------------------------------------------------------
(* Lookup *)

RECURSIVE FindLeaveDescend(_, _, _, _)
FindLeaveDescend(S, key, levelNo, nodePos) ==
    IF ~(levelNo > 1 /\ nodePos # INVALID_POSITION)
    THEN [S |-> S, nodePos |-> nodePos]
    ELSE With([S1 \in {readNode(S, nodePos)} |->
         With([bs \in {binarySearchNode(NodeAt(S1, nodePos).items, key)} |->
            LET items == NodeAt(S1, nodePos).items
            IN IF ~Ok(S1) THEN [S |-> S1, nodePos |-> INVALID_POSITION]
               ELSE IF bs.keyNo <= Len(items)
                    THEN FindLeaveDescend(S1, key, levelNo - 1, items[bs.keyNo].child)
                    ELSE [S |-> S1, nodePos |-> INVALID_POSITION]])])

(* findLeave: [S, found, leavePos] *)
findLeave(S, key) ==
    IF S.info.numLevels < 1
    THEN [S |-> S, found |-> FALSE, leavePos |-> INVALID_POSITION]
    ELSE With([d \in {FindLeaveDescend(S, key, S.info.numLevels, S.info.rootNode)} |->
         With([S1 \in {IF d.nodePos # INVALID_POSITION THEN readNode(d.S, d.nodePos)
                       ELSE d.S} |->
         With([bs \in {binarySearchNode(NodeAt(S1, d.nodePos).items, key)} |->
            LET items == NodeAt(S1, d.nodePos).items
            IN IF ~Ok(S1) \/ d.nodePos = INVALID_POSITION
               THEN [S |-> S1, found |-> FALSE, leavePos |-> INVALID_POSITION]
               ELSE IF bs.keyNo <= Len(items)
                    THEN [S |-> S1, found |-> bs.exactMatch,
                          leavePos |-> items[bs.keyNo].child]
                    ELSE [S |-> S1, found |-> FALSE, leavePos |-> INVALID_POSITION]])])])

(* find without the test of the latch at its entry *)
findIgnoringLatch(S, key) ==
    With([f \in {findLeave([S EXCEPT !.err = "OK"], key)} |->
       IF ~Ok(f.S) THEN [S |-> f.S, ret |-> INVALID_POSITION]
       ELSE With([b \in {bringLeave(f.S, f.leavePos)} |->
               [S |-> [b.S EXCEPT !.err = IF Ok(b.S) THEN S.err ELSE @],
                ret |-> IF f.found THEN b.ret ELSE INVALID_POSITION]])])

(* find: [S, ret] *)
find(S, key) ==
    IF ~Ok(S) THEN [S |-> S, ret |-> INVALID_POSITION]
    ELSE With([f \in {findLeave(S, key)} |->
            IF ~Ok(f.S) THEN [S |-> f.S, ret |-> INVALID_POSITION]
            ELSE With([b \in {bringLeave(f.S, f.leavePos)} |->
                    IF f.found THEN [S |-> b.S, ret |-> b.ret]
                    ELSE [S |-> b.S, ret |-> INVALID_POSITION]])])

(* findPath: the stack is a sequence of [nodePos, childNo], its top last.
   Result [S, remainLevels, stack, child]. *)
RECURSIVE FindPathLoop(_, _, _, _, _, _, _)
FindPathLoop(S, key, nodePos, remainLevels, notFirstLevel, stack, child) ==
    IF nodePos = INVALID_POSITION \/ ~Ok(S)
    THEN [S |-> S, remainLevels |-> remainLevels, stack |-> stack, child |-> child]
    ELSE With([S1 \in {readNode(S, nodePos)} |->
         With([bs \in {binarySearchNode(NodeAt(S1, nodePos).items, key)} |->
            LET items == NodeAt(S1, nodePos).items
                numItems == Len(items)
            IN IF ~Ok(S1)
               THEN [S |-> S1, remainLevels |-> remainLevels, stack |-> stack,
                     child |-> child]
               ELSE IF notFirstLevel \/ numItems > 1
               THEN IF bs.keyNo <= numItems
                    THEN IF remainLevels - 1 = 0
                         THEN [S |-> S1, remainLevels |-> 0,
                               stack |-> Append(stack,
                                   [nodePos |-> nodePos,
                                    childNo |-> IF bs.exactMatch THEN bs.keyNo ELSE 0]),
                               child |-> items[bs.keyNo].child]
                         ELSE FindPathLoop(S1, key, items[bs.keyNo].child,
                                           remainLevels - 1, TRUE,
                                           Append(stack, [nodePos |-> nodePos,
                                                          childNo |-> bs.keyNo]),
                                           child)
                    ELSE [S |-> S1, remainLevels |-> remainLevels, stack |-> <<>>,
                          child |-> INVALID_POSITION]
               ELSE IF S1.info.numLevels > 1
                    THEN With([S2 \in {freeNode(S1, nodePos)} |->
                            FindPathLoop(
                               IF Ok(S2)
                               THEN [S2 EXCEPT !.info.rootNode = ItemAt(items, 1).child,
                                               !.info.numLevels = @ - 1]
                               ELSE S2,
                               key, ItemAt(items, 1).child, remainLevels - 1,
                               notFirstLevel, stack, child)])
                    ELSE [S |-> S1, remainLevels |-> remainLevels - 1,
                          stack |-> Append(stack, [nodePos |-> nodePos, childNo |-> 0]),
                          child |-> ItemAt(items, 1).child]])])

(* findPath: [S, ok, stack, child] *)
findPath(S, key) ==
    IF S.info.rootNode = INVALID_POSITION
    THEN [S |-> S, ok |-> FALSE, stack |-> <<>>, child |-> INVALID_POSITION]
    ELSE With([r \in {FindPathLoop(S, key, S.info.rootNode, S.info.numLevels, FALSE,
                                   <<>>, INVALID_POSITION)} |->
            [S |-> r.S, ok |-> (r.remainLevels = 0 /\ r.stack # <<>>),
             stack |-> r.stack, child |-> r.child]])

----------------------------------------------------------------------------
(* Insert path *)

RECURSIVE BitOr(_, _)
BitOr(a, b) ==
    IF a = 0 THEN b
    ELSE IF b = 0 THEN a
    ELSE (IF a % 2 = 1 \/ b % 2 = 1 THEN 1 ELSE 0) + 2 * BitOr(a \div 2, b \div 2)

RECURSIVE BitAnd(_, _)
BitAnd(a, b) ==
    IF a = 0 \/ b = 0 THEN 0
    ELSE (IF a % 2 = 1 /\ b % 2 = 1 THEN 1 ELSE 0) + 2 * BitAnd(a \div 2, b \div 2)

canDelete(S) == IF ~Ok(S) THEN FALSE ELSE BitAnd(S.info.attributes, ALLOW_DELETE) # 0

isUnique(S) == IF ~Ok(S) THEN FALSE ELSE BitAnd(S.info.attributes, UNIQUE) # 0

(* The test append makes before rejecting a key whose routing entry matched. *)
isUniqueIdx(S) == BitOr(S.info.attributes, UNIQUE) # 0

setNodeKey(items, itemNo, key) ==
    IF itemNo \in 1..Len(items) THEN [items EXCEPT ![itemNo].key = key] ELSE items

setChildPos(items, itemNo, childPos) ==
    IF itemNo \in 1..Len(items) THEN [items EXCEPT ![itemNo].child = childPos] ELSE items

(* Move toMove entries from the end of src to the front of dst. *)
RECURSIVE MoveTailToFront(_, _, _)
MoveTailToFront(src, dst, toMove) ==
    IF toMove <= 0 THEN [src |-> src, dst |-> dst]
    ELSE LET srcNum == Len(src)
             it == ItemAt(src, srcNum)
         IN MoveTailToFront(deleteItem(src, srcNum),
                            insertItem(dst, 1, it.key, it.child), toMove - 1)

(* The entries of the new right-hand node of a split, before balancing, and
   what stays in the full node. *)
SplitNewNode(items, keyNo, newKey, newChildPos) ==
    LET numItems == Len(items)
    IN IF keyNo <= numItems
       THEN [node |-> deleteItem(items, numItems),
             newNode |-> insertItem(
                           insertItem(<<>>, 1, items[numItems].key, items[numItems].child),
                           keyNo, newKey, newChildPos)]
       ELSE [node |-> items, newNode |-> insertItem(<<>>, 1, newKey, newChildPos)]

(* insertKey, the node is full and the right sibling has room: redistribute *)
InsertRedistribute(S2, nodePos, node0, items0, keyNo, newKey, newChildPos) ==
    LET numItems == Len(items0)
        nextNodePos == node0.next
        nextNode == NodeAt(S2, nextNodePos)
    IN With([a \in {IF keyNo <= numItems
                    THEN [node |-> insertItem(deleteItem(items0, numItems), keyNo,
                                              newKey, newChildPos),
                          next |-> insertItem(nextNode.items, 1, items0[numItems].key,
                                              items0[numItems].child)]
                    ELSE [node |-> items0,
                          next |-> insertItem(nextNode.items, 1, newKey, newChildPos)]} |->
       With([b \in {IF canDelete(S2)
                    THEN MoveTailToFront(a.node, a.next, (Len(a.node) - Len(a.next)) \div 2)
                    ELSE [src |-> a.node, dst |-> a.next]} |->
          [S |-> writeNode(writeNode(S2, [node0 EXCEPT !.items = b.src], nodePos),
                           [nextNode EXCEPT !.items = b.dst], nextNodePos),
           state |-> 2, parentKey |-> ItemAt(b.src, Len(b.src)).key,
           additionalKey |-> 0, additionalChildPos |-> INVALID_POSITION]])])

(* insertKey, the node is full and so is the right sibling: split *)
InsertSplit(S2, nodePos, node0, items0, keyNo, newKey, newChildPos) ==
    LET nextNodePos == node0.next
    IN With([sp \in {SplitNewNode(items0, keyNo, newKey, newChildPos)} |->
       With([b \in {IF canDelete(S2)
                    THEN MoveTailToFront(sp.node, sp.newNode, (Len(sp.node) - 1) \div 2)
                    ELSE [src |-> sp.node, dst |-> sp.newNode]} |->
       With([w \in {writeNewNode(S2, [items |-> b.dst, next |-> nextNodePos,
                                      prev |-> nodePos])} |->
       With([R \in {IF nextNodePos # INVALID_POSITION
                    THEN readNode(w.S, nextNodePos) ELSE w.S} |->
       With([T1 \in {IF nextNodePos # INVALID_POSITION
                     THEN writeNode(R, [NodeAt(R, nextNodePos) EXCEPT !.prev = w.pos],
                                    nextNodePos)
                     ELSE R} |->
          [S |-> writeNode(T1, [items |-> b.src, next |-> w.pos, prev |-> node0.prev],
                           nodePos),
           state |-> 3, parentKey |-> ItemAt(b.src, Len(b.src)).key,
           additionalKey |-> ItemAt(b.dst, Len(b.dst)).key,
           additionalChildPos |-> w.pos]])])])])])

(* insertKey: [S, state, parentKey, additionalKey, additionalChildPos] *)
insertKey(S, nodePos, newKey, newChildPos, changedKeyNo, hasChangedKey, changedKeyVal) ==
    With([S1 \in {readNode(S, nodePos)} |->
    With([items0 \in {IF changedKeyNo # 0 /\ hasChangedKey
                      THEN setNodeKey(NodeAt(S1, nodePos).items, changedKeyNo,
                                      changedKeyVal)
                      ELSE NodeAt(S1, nodePos).items} |->
    With([bs \in {binarySearchNode(items0, newKey)} |->
       LET node0 == NodeAt(S1, nodePos)
           numItems == Len(items0)
           keyNo == bs.keyNo
           nextNodePos == node0.next
           Result(T, st, pk) ==
               [S |-> T, state |-> st, parentKey |-> pk, additionalKey |-> 0,
                additionalChildPos |-> INVALID_POSITION]
       IN IF ~Ok(S1) THEN Result(S1, 0, 0)
          ELSE IF bs.exactMatch
          THEN Result(writeNode(S1, [node0 EXCEPT
                                        !.items = setChildPos(items0, keyNo, newChildPos)],
                                nodePos), 1, 0)
          ELSE IF numItems < S1.info.maxItems
          THEN Result(writeNode(S1, [node0 EXCEPT
                                        !.items = insertItem(items0, keyNo, newKey,
                                                             newChildPos)],
                                nodePos),
                      IF keyNo <= numItems THEN 1 ELSE 2,
                      IF keyNo <= numItems THEN 0 ELSE newKey)
          ELSE With([S2 \in {IF nextNodePos # INVALID_POSITION
                             THEN readNode(S1, nextNodePos) ELSE S1} |->
                  IF ~Ok(S2) THEN Result(S2, 0, 0)
                  ELSE IF nextNodePos # INVALID_POSITION
                          /\ Len(NodeAt(S2, nextNodePos).items) < S2.info.maxItems
                  THEN InsertRedistribute(S2, nodePos, node0, items0, keyNo, newKey,
                                          newChildPos)
                  ELSE InsertSplit(S2, nodePos, node0, items0, keyNo, newKey,
                                   newChildPos)])])])])

(* append, case 2: rewrite the routing key of the followed entry in the parents. *)
RECURSIVE UpdateParentKeys(_, _, _)
UpdateParentKeys(S, stack, parentKey) ==
    IF stack = <<>> \/ ~Ok(S) THEN S
    ELSE LET top == stack[Len(stack)]
             rest == SubSeq(stack, 1, Len(stack) - 1)
         IN With([S1 \in {readNode(S, top.nodePos)} |->
            With([S2 \in {writeNode(S1, [NodeAt(S1, top.nodePos) EXCEPT
                                            !.items = setNodeKey(@, top.childNo, parentKey)],
                                    top.nodePos)} |->
               IF Ok(S2) /\ top.childNo = Len(NodeAt(S1, top.nodePos).items) /\ rest # <<>>
               THEN UpdateParentKeys(S2, rest, parentKey)
               ELSE S2])])

(* append, the loop over the path: [S, ret] *)
RECURSIVE AppendLoop(_, _, _, _, _, _, _, _)
AppendLoop(S, stack, nodePos, newKey, newChildPos, changedKeyNo, hasChangedKey, changedKeyVal) ==
    IF nodePos = INVALID_POSITION THEN [S |-> S, ret |-> TRUE]
    ELSE With([r \in {insertKey(S, nodePos, newKey, newChildPos, changedKeyNo,
                                hasChangedKey, changedKeyVal)} |->
            IF ~Ok(r.S) THEN [S |-> r.S, ret |-> FALSE]
            ELSE IF r.state = 1 THEN [S |-> r.S, ret |-> TRUE]
            ELSE IF r.state = 2
            THEN [S |-> UpdateParentKeys(r.S, stack, r.parentKey), ret |-> TRUE]
            ELSE IF r.state = 3
            THEN IF stack # <<>>
                 THEN LET top == stack[Len(stack)]
                      IN AppendLoop(r.S, SubSeq(stack, 1, Len(stack) - 1), top.nodePos,
                                    r.additionalKey, r.additionalChildPos, top.childNo,
                                    TRUE, r.parentKey)
                 ELSE With([w \in {writeNewNode(r.S,
                                     [ResetNodeBlock EXCEPT
                                         !.items = <<[key |-> r.parentKey, child |-> nodePos],
                                                     [key |-> r.additionalKey,
                                                      child |-> r.additionalChildPos]>>])} |->
                         [S |-> IF Ok(w.S)
                                THEN [w.S EXCEPT !.info.rootNode = w.pos,
                                                 !.info.numLevels = @ + 1]
                                ELSE w.S,
                          ret |-> TRUE]])
            ELSE [S |-> r.S, ret |-> FALSE]])

(* Splice leaf leavePos out of / into the chain between prevLeavePos and
   nextLeavePos: used by append for the new leaf and for taking it back. *)
LinkNeighbours(S, nextLeavePos, prevLeavePos, nextPrev, prevNext) ==
    With([S1 \in {readLeave(S, nextLeavePos)} |->
    With([S2 \in {writeLeave(S1, [LeaveAt(S1, nextLeavePos) EXCEPT !.prev = nextPrev],
                             nextLeavePos)} |->
       IF prevLeavePos # INVALID_POSITION
       THEN With([S3 \in {readLeave(S2, prevLeavePos)} |->
               writeLeave(S3, [LeaveAt(S3, prevLeavePos) EXCEPT !.next = prevNext],
                          prevLeavePos)])
       ELSE IF Ok(S2) THEN [S2 EXCEPT !.info.firstLeave = prevNext] ELSE S2])])

(* append found the key present: the new leaf is taken out of the chain again
   and returned to the free list *)
RejectDuplicate(S, nextLeavePos, prevLeavePos, leavePos) ==
    freeLeave(LinkNeighbours(S, nextLeavePos, prevLeavePos, prevLeavePos, nextLeavePos),
              leavePos)

(* append: [S, ret] *)
append(S, newKey, newDataPos) ==
    IF ~Ok(S) THEN [S |-> S, ret |-> FALSE]
    ELSE With([fp \in {findPath(S, newKey)} |->
         IF ~Ok(fp.S) \/ ~fp.ok THEN [S |-> fp.S, ret |-> FALSE]
         ELSE
         With([a \in {allocateLeave(fp.S)} |->
         With([S1 \in {readLeave(a.S, fp.child)} |->
            LET nextLeavePos == fp.child
                leavePos == a.pos
                prevLeavePos == LeaveAt(S1, nextLeavePos).prev
                newLeave == [key |-> newKey, dataPos |-> newDataPos,
                             next |-> nextLeavePos, prev |-> prevLeavePos]
                top == fp.stack[Len(fp.stack)]
                rest == SubSeq(fp.stack, 1, Len(fp.stack) - 1)
            IN
            With([S2 \in {LinkNeighbours(S1, nextLeavePos, prevLeavePos, leavePos,
                                         leavePos)} |->
            With([S3 \in {setPositionFromLeave(writeLeave(S2, newLeave, leavePos),
                                               leavePos, newLeave)} |->
               IF ~Ok(S3) THEN [S |-> S3, ret |-> FALSE]
               ELSE IF top.childNo > 0
               THEN IF isUniqueIdx(S3)
                    THEN [S |-> RejectDuplicate(S3, nextLeavePos, prevLeavePos, leavePos),
                          ret |-> FALSE]
                    ELSE With([R \in {readNode(S3, top.nodePos)} |->
                            [S |-> writeNode(R, [NodeAt(R, top.nodePos) EXCEPT
                                          !.items = setChildPos(@, top.childNo, leavePos)],
                                          top.nodePos),
                             ret |-> TRUE]])
               ELSE AppendLoop(S3, rest, top.nodePos, newKey, leavePos, 0, FALSE, 0)])])])])])

----------------------------------------------------------------------------
(* Delete path *)

(* modifyLeave: [S, ret] *)
modifyLeave(S, key, newLeavePos) ==
    IF S.info.numLevels < 1 THEN [S |-> S, ret |-> INVALID_POSITION]
    ELSE With([d \in {FindLeaveDescend(S, key, S.info.numLevels, S.info.rootNode)} |->
         With([S1 \in {IF d.nodePos # INVALID_POSITION THEN readNode(d.S, d.nodePos)
                       ELSE d.S} |->
         With([bs \in {binarySearchNode(NodeAt(S1, d.nodePos).items, key)} |->
            LET node == NodeAt(S1, d.nodePos)
            IN IF ~Ok(S1) \/ d.nodePos = INVALID_POSITION
               THEN [S |-> S1, ret |-> INVALID_POSITION]
               ELSE IF bs.keyNo <= Len(node.items) /\ bs.exactMatch
                    THEN [S |-> writeNode(S1, [node EXCEPT
                                    !.items = setChildPos(node.items, bs.keyNo,
                                                          newLeavePos)],
                                    d.nodePos),
                          ret |-> node.items[bs.keyNo].child]
                    ELSE [S |-> S1, ret |-> INVALID_POSITION]])])])

(* A borrow that takes every entry of the right sibling *)
BorrowAllFromNext(node, nextNode, toMove) ==
    [node |-> node \o nextNode, nextNode |-> <<>>]

(* Borrow: move toMove entries from the front of the right sibling to the end
   of the node. *)
RECURSIVE BorrowFromNext(_, _, _)
BorrowFromNext(node, nextNode, toMove) ==
    IF toMove <= 0 THEN [node |-> node, nextNode |-> nextNode]
    ELSE LET it == ItemAt(nextNode, 1)
         IN BorrowFromNext(insertItem(node, Len(node) + 1, it.key, it.child),
                           deleteItem(nextNode, 1), toMove - 1)

(* Merge: insert entry i of the node at position i of the right sibling. *)
RECURSIVE MergeIntoNext(_, _, _)
MergeIntoNext(node, nextNode, i) ==
    IF i > Len(node) THEN nextNode
    ELSE MergeIntoNext(node, insertItem(nextNode, i, node[i].key, node[i].child), i + 1)

(* Unlink a node from the previous sibling: prev.next := nextNodePos *)
RelinkPrevNode(S, prevNodePos, nextNodePos) ==
    IF prevNodePos # INVALID_POSITION
    THEN With([R \in {readNode(S, prevNodePos)} |->
            writeNode(R, [NodeAt(R, prevNodePos) EXCEPT !.next = nextNodePos],
                      prevNodePos)])
    ELSE S

(* Unlink a node from the next sibling: next.prev := prevNodePos *)
RelinkNextNode(S, nextNodePos, prevNodePos) ==
    IF nextNodePos # INVALID_POSITION
    THEN With([R \in {readNode(S, nextNodePos)} |->
            writeNode(R, [NodeAt(R, nextNodePos) EXCEPT !.prev = prevNodePos],
                      nextNodePos)])
    ELSE S

(* removeKey, the result once the node is written: state 2 with the new last
   key when the last key of the node changed *)
RemoveResult(T, st, finalItems, changed) ==
    IF st # 3 /\ changed
    THEN [S |-> T, state |-> 2, parentKey |-> ItemAt(finalItems, Len(finalItems)).key]
    ELSE [S |-> T, state |-> st, parentKey |-> 0]

(* removeKey: [S, state, parentKey] *)
removeKey(S, nodePos, removeKeyNo) ==
    With([S1 \in {readNode(S, nodePos)} |->
       LET node0 == NodeAt(S1, nodePos)
           numItems0 == Len(node0.items)
           items == deleteItem(node0.items, removeKeyNo)
           numItems == numItems0 - 1
           lastChanged == removeKeyNo = numItems0
           nextNodePos == node0.next
           prevNodePos == node0.prev
           Result(T, st, pk) == [S |-> T, state |-> st, parentKey |-> pk]
       IN IF ~Ok(S1) THEN Result(S1, 0, 0)
          ELSE IF removeKeyNo > numItems0 \/ removeKeyNo < 1 THEN Result(S1, 1, 0)
          ELSE IF numItems # 0
          THEN IF nextNodePos # INVALID_POSITION
               THEN With([S2 \in {readNode(S1, nextNodePos)} |->
                       LET nextNode == NodeAt(S2, nextNodePos)
                           nextNumItems == Len(nextNode.items)
                       IN IF ~Ok(S2) THEN Result(S2, 0, 0)
                          ELSE IF nextNumItems + numItems <= S2.info.maxItems \div 2
                          THEN RemoveResult(
                                  freeNode(
                                     writeNode(RelinkPrevNode(S2, prevNodePos, nextNodePos),
                                               [nextNode EXCEPT
                                                   !.items = MergeIntoNext(items, @, 1),
                                                   !.prev = prevNodePos],
                                               nextNodePos),
                                     nodePos),
                                  3, items, lastChanged)
                          ELSE IF nextNumItems > numItems + 1
                          THEN With([b \in {BorrowFromNext(items, nextNode.items,
                                                (nextNumItems - numItems) \div 2)} |->
                                  RemoveResult(
                                     writeNode(writeNode(S2, [nextNode EXCEPT
                                                                 !.items = b.nextNode],
                                                         nextNodePos),
                                               [node0 EXCEPT !.items = b.node], nodePos),
                                     1, b.node, TRUE)])
                          ELSE RemoveResult(writeNode(S2, [node0 EXCEPT !.items = items],
                                                      nodePos),
                                            1, items, lastChanged)])
               ELSE RemoveResult(writeNode(S1, [node0 EXCEPT !.items = items], nodePos),
                                 1, items, lastChanged)
          ELSE \* the node is now empty
               Result(freeNode(RelinkPrevNode(RelinkNextNode(S1, nextNodePos, prevNodePos),
                                              prevNodePos, nextNodePos),
                               nodePos), 3, 0)])

RECURSIVE DeleteFromNodesLoop(_, _, _, _, _)
DeleteFromNodesLoop(S, stack, nodePos, keyNoToRemove, leavePos) ==
    IF nodePos = INVALID_POSITION THEN [S |-> S, leavePos |-> leavePos]
    ELSE With([r \in {removeKey(S, nodePos, keyNoToRemove)} |->
            IF ~Ok(r.S) THEN [S |-> r.S, leavePos |-> INVALID_POSITION]
            ELSE IF r.state = 1 THEN [S |-> r.S, leavePos |-> leavePos]
            ELSE IF r.state = 2
            THEN [S |-> UpdateParentKeys(r.S, stack, r.parentKey), leavePos |-> leavePos]
            ELSE IF r.state = 3
            THEN IF stack # <<>>
                 THEN LET top == stack[Len(stack)]
                      IN DeleteFromNodesLoop(r.S, SubSeq(stack, 1, Len(stack) - 1),
                                             top.nodePos, top.childNo, leavePos)
                 ELSE [S |-> r.S, leavePos |-> leavePos]
            ELSE [S |-> r.S, leavePos |-> INVALID_POSITION]])

(* deleteKeyFromNodes: [S, leavePos] *)
deleteKeyFromNodes(S, deleteKey) ==
    With([fp \in {findPath(S, deleteKey)} |->
       IF ~Ok(fp.S) \/ ~fp.ok THEN [S |-> fp.S, leavePos |-> INVALID_POSITION]
       ELSE LET top == fp.stack[Len(fp.stack)]
            IN IF top.childNo = 0 THEN [S |-> fp.S, leavePos |-> INVALID_POSITION]
               ELSE DeleteFromNodesLoop(fp.S, SubSeq(fp.stack, 1, Len(fp.stack) - 1),
                                        top.nodePos, top.childNo, fp.child)])

(* deleteKey, the loop freeing every leaf of the run:
   [S, tempLeavePos, tempLeave] as they stand when the loop ends *)
RECURSIVE FreeRun(_, _, _, _)
FreeRun(S, tempLeavePos, tempLeave, deleteKey) ==
    With([S1 \in {freeLeave(S, tempLeavePos)} |->
    With([S2 \in {IF tempLeave.next # INVALID_POSITION
                  THEN readLeave(S1, tempLeave.next) ELSE S1} |->
       LET nextPos == tempLeave.next
           nextLeave == LeaveAt(S2, nextPos)
       IN IF ~Ok(S2) \/ nextPos = INVALID_POSITION
          THEN [S |-> S2, tempLeavePos |-> nextPos, tempLeave |-> tempLeave]
          ELSE IF Compare(nextLeave.key, deleteKey) = 0
               THEN FreeRun(S2, nextPos, nextLeave, deleteKey)
               ELSE [S |-> S2, tempLeavePos |-> nextPos, tempLeave |-> nextLeave]])])

(* deleteKey: [S, ret] *)
(* deleteKey that reports success whether or not the nodes held the key *)
deleteKeyReportingSuccess(S, key) ==
    IF ~Ok(S) THEN [S |-> S, ret |-> FALSE]
    ELSE With([d \in {deleteKeyFromNodes(S, key)} |-> [S |-> d.S, ret |-> TRUE]])

deleteKey(S, key) ==
    IF ~Ok(S) THEN [S |-> S, ret |-> FALSE]
    ELSE With([d \in {deleteKeyFromNodes(S, key)} |->
         IF ~Ok(d.S) \/ d.leavePos = INVALID_POSITION THEN [S |-> d.S, ret |-> FALSE]
         ELSE
         With([S1 \in {readLeave(d.S, d.leavePos)} |->
         With([run \in {IF Ok(S1)
                        THEN FreeRun(S1, d.leavePos, LeaveAt(S1, d.leavePos), key)
                        ELSE [S |-> S1, tempLeavePos |-> d.leavePos,
                              tempLeave |-> ResetLeaveBlock]} |->
            LET firstLeavePos == LeaveAt(S1, d.leavePos).prev
                tempLeavePos == run.tempLeavePos
                tempLeave == [run.tempLeave EXCEPT !.prev = firstLeavePos]
            IN
            With([S2 \in {writeLeave(run.S, tempLeave, tempLeavePos)} |->
            With([S3 \in {IF firstLeavePos # INVALID_POSITION
                          THEN readLeave(S2, firstLeavePos) ELSE S2} |->
            With([firstLeave \in {[LeaveAt(S3, firstLeavePos) EXCEPT
                                      !.next = tempLeavePos]} |->
            With([S4 \in {IF firstLeavePos # INVALID_POSITION
                          THEN writeLeave(S3, firstLeave, firstLeavePos)
                          ELSE IF Ok(S3) THEN [S3 EXCEPT !.info.firstLeave = tempLeavePos]
                               ELSE S3} |->
               [S |-> IF tempLeavePos # S4.info.lastLeave
                      THEN setPositionFromLeave(S4, tempLeavePos, tempLeave)
                      ELSE IF firstLeavePos # INVALID_POSITION
                           THEN setPositionFromLeave(S4, firstLeavePos, firstLeave)
                           ELSE resetPosition(S4),
                ret |-> TRUE]])])])])])])])

(* deleteCurrent: [S, ret] *)
(* deleteCurrent past its entry tests: the cursor leaf is unlinked and freed,
   the nodes are updated and the cursor moves to a neighbour. *)
UnlinkCurrentLeave(S) ==
    LET currentLeave == S.pos.currentLeave
        prevPos == S.pos.prevLeave
        nextPos == S.pos.nextLeave
    IN
    With([S1 \in {readLeave(S, currentLeave)} |->
    With([deletedLeave \in {LeaveAt(S1, currentLeave)} |->
    With([S2 \in {IF prevPos # INVALID_POSITION THEN readLeave(S1, prevPos) ELSE S1} |->
    With([prevLeave \in {[LeaveAt(S2, prevPos) EXCEPT !.next = nextPos]} |->
    With([S3 \in {IF prevPos # INVALID_POSITION THEN writeLeave(S2, prevLeave, prevPos)
                  ELSE IF Ok(S2) THEN [S2 EXCEPT !.info.firstLeave = nextPos] ELSE S2} |->
    With([S4 \in {IF nextPos # INVALID_POSITION THEN readLeave(S3, nextPos) ELSE S3} |->
    With([nextLeave \in {[LeaveAt(S4, nextPos) EXCEPT !.prev = prevPos]} |->
    With([S5 \in {IF nextPos # INVALID_POSITION THEN writeLeave(S4, nextLeave, nextPos)
                  ELSE S4} |->
    With([S6 \in {freeLeave(S5, currentLeave)} |->
       LET prevEqual == prevPos # INVALID_POSITION
                        /\ Compare(prevLeave.key, deletedLeave.key) = 0
           nextEqual == nextPos # INVALID_POSITION
                        /\ Compare(nextLeave.key, deletedLeave.key) = 0
       IN
       With([S7 \in {IF ~Ok(S6) THEN S6
                     ELSE IF ~prevEqual
                     THEN IF nextEqual THEN modifyLeave(S6, deletedLeave.key, nextPos).S
                          ELSE deleteKeyFromNodes(S6, deletedLeave.key).S
                     ELSE S6} |->
          [S |-> IF nextPos # INVALID_POSITION /\ nextPos # S7.info.lastLeave
                 THEN setPositionFromLeave(S7, nextPos, nextLeave)
                 ELSE IF prevPos # INVALID_POSITION
                      THEN setPositionFromLeave(S7, prevPos, prevLeave)
                      ELSE resetPosition(S7),
           ret |-> deletedLeave.dataPos]])])])])])])])])])])

(* deleteCurrent without the test for the EOF sentinel leaf *)
deleteCurrentOnAnyLeave(S) ==
    IF ~Ok(S) \/ S.pos.currentLeave = INVALID_POSITION
    THEN [S |-> S, ret |-> INVALID_POSITION]
    ELSE UnlinkCurrentLeave(S)

deleteCurrent(S) ==
    IF ~Ok(S) THEN [S |-> S, ret |-> INVALID_POSITION]
    ELSE IF S.pos.currentLeave = INVALID_POSITION \/ S.pos.currentLeave = S.info.lastLeave
    THEN [S |-> S, ret |-> INVALID_POSITION]
    ELSE UnlinkCurrentLeave(S)

----------------------------------------------------------------------------
(* Navigation *)

getFirst(S) ==
    IF ~Ok(S) THEN [S |-> S, ret |-> INVALID_POSITION, key |-> 0]
    ELSE IF S.info.firstLeave # S.info.lastLeave THEN bringLeave(S, S.info.firstLeave)
    ELSE [S |-> S, ret |-> INVALID_POSITION, key |-> 0]

getNext(S) ==
    IF ~Ok(S) THEN [S |-> S, ret |-> INVALID_POSITION, key |-> 0]
    ELSE IF ~isEOFInternal(S) /\ S.pos.nextLeave # INVALID_POSITION
         THEN bringLeave(S, S.pos.nextLeave)
         ELSE [S |-> S, ret |-> INVALID_POSITION, key |-> 0]

getPrev(S) ==
    IF ~Ok(S) THEN [S |-> S, ret |-> INVALID_POSITION, key |-> 0]
    ELSE IF ~isBOFInternal(S) /\ S.pos.prevLeave # INVALID_POSITION
         THEN bringLeave(S, S.pos.prevLeave)
         ELSE [S |-> S, ret |-> INVALID_POSITION, key |-> 0]

getCurrent(S) ==
    IF ~Ok(S) THEN [S |-> S, ret |-> INVALID_POSITION, key |-> 0]
    ELSE bringLeave(S, S.pos.currentLeave)

----------------------------------------------------------------------------
(* Error latch, end-of-file tests and descriptor flush *)

clearError(S) == [S EXCEPT !.err = "OK"]

isEOF(S) == isEOFInternal(S)

isBOF(S) == isBOFInternal(S)

(* writeAllInfo: every entry of m_indexInfo goes to the file *)
writeAllInfo(S) ==
    IF Ok(S)
    THEN [S EXCEPT !.stored = S.info,
                   !.rest = [i \in DOMAIN S.rest |-> [S.rest[i] EXCEPT !.stored = S.rest[i].info]]]
    ELSE S

(* writeHeader: the header holds the number of indexes, fixed at construction,
   and its checksum; rewriting it leaves the file as it is. *)
writeHeader(S) == S

flushFile(S) == writeAllInfo(S)

flushIndex(S) == writeHeader(S)

(* setActiveIndex that leaves m_currentIndex as it is *)
setActiveIndexIgnored(S, indexNo) == S

(* setActiveIndex with one cursor shared by all the indexes *)
setActiveIndexSharingCursor(S, indexNo) ==
    IF ~Ok(S) THEN S
    ELSE LET target == IF indexNo > 0 /\ indexNo <= NumIndexes THEN indexNo - 1 ELSE 0
         IN IF target = S.cur THEN S
            ELSE [S EXCEPT !.cur = target,
                           !.info = S.rest[target].info,
                           !.stored = S.rest[target].stored,
                           !.rest = [i \in IndexNos \ {target} |->
                                       IF i = S.cur
                                       THEN [info |-> S.info, stored |-> S.stored,
                                             pos |-> S.pos]
                                       ELSE S.rest[i]]]

(* setActiveIndex: m_currentIndex becomes indexNo - 1, or 0 when indexNo is out
   of range; info, stored and pos become the entries of that index. *)
setActiveIndex(S, indexNo) ==
    IF ~Ok(S) THEN S
    ELSE LET target == IF indexNo > 0 /\ indexNo <= NumIndexes THEN indexNo - 1 ELSE 0
         IN IF target = S.cur THEN S
            ELSE [S EXCEPT !.cur = target,
                           !.info = S.rest[target].info,
                           !.stored = S.rest[target].stored,
                           !.pos = S.rest[target].pos,
                           !.rest = [i \in IndexNos \ {target} |->
                                       IF i = S.cur
                                       THEN [info |-> S.info, stored |-> S.stored,
                                             pos |-> S.pos]
                                       ELSE S.rest[i]]]

(* ~MultiIndex: the header and every descriptor are written, whatever the
   error code is. *)
destructor(S) ==
    [writeAllInfo(writeHeader([S EXCEPT !.err = "OK"])) EXCEPT !.err = S.err]

(* MultiIndex(filename): a new handle on the file as it is: no error, index 0
   selected, every descriptor read from the file, every cursor reset. *)
openFile(S) ==
    With([Z \in {setActiveIndex([S EXCEPT !.err = "OK"], 1)} |->
       [Z EXCEPT !.info = Z.stored,
                 !.pos = ResetPositionValue,
                 !.rest = [i \in DOMAIN Z.rest |->
                             [info |-> Z.rest[i].stored, stored |-> Z.rest[i].stored,
                              pos |-> ResetPositionValue]]]])

(* A handle opened on the file while the old handle never wrote its descriptors *)
reopenWithoutClose(S) == openFile(S)

(* Closing the handle and re-opening the file *)
closeAndReopen(S) == openFile(destructor(S))

----------------------------------------------------------------------------
(* The state machine: what one call of each public operation does *)

Threads == 1..NumThreads

Commit(S) ==
    /\ nodes' = S.nodes
    /\ leaves' = S.leaves
    /\ info' = S.info
    /\ storedInfo' = S.stored
    /\ position' = S.pos
    /\ fileSize' = S.size
    /\ errorCode' = S.err
    /\ damaged' = S.bad
    /\ currentIndex' = S.cur
    /\ inactive' = S.rest

FileUnchanged ==
    UNCHANGED <<nodes, leaves, info, storedInfo, position, currentIndex, inactive,
                fileSize, errorCode, damaged>>

----------------------------------------------------------------------------
(* The heap file of records: HeapFile *)

(* HeapFile(filename, holesTableSize): the header is written to the new file
   and no holes table exists *)
ConstructedHeap ==
    [size |-> HeapFileHeaderSize, firstHolesTablePos |-> INVALID_POSITION, live |-> <<>>]

(* allocateSpace: the position of a suitable hole, else the size of the file.
   Nothing is written and the file does not grow.  findSuitableHole walks the
   chain of holes tables from firstHolesTablePos and returns nothing when the
   chain is empty, as it is until the first freeSpace: the calls handled here
   are those made on a heap without holes. *)
allocateSpace(H, size) == H.size

(* File::write of size bytes at pos: the file ends no earlier than pos + size *)
write(H, size, pos) ==
    [H EXCEPT !.size = IF pos + size > @ THEN pos + size ELSE @]

BoolRet(b) == IF b THEN 1 ELSE 0

(* pre is the error code the handle held when the call was made *)
Call(op, key, val, ret) ==
    [op |-> op, key |-> key, val |-> val, ret |-> ret, pre |-> errorCode]

Initialised == info.numLevels >= 1

(* A call that would touch a position outside the blocks of the file is outside
   the modelled layout; the actions leave such calls out. *)
InModel(S) == S.err # "OUT_OF_LAYOUT"

(* The data position handed to append: the engine stores and returns it without
   examining it, and the caller passes the position of a new record each time. *)
NewDataPos == nops + 1

IdleThread == [pc |-> "idle", op |-> "none", key |-> 0, ret |-> 0, n |-> 0]

----------------------------------------------------------------------------
(* Keys as the bytes the caller passes: fillEOFKey and compare per key type *)

KeyTypes == {"BLOCK", "NUM_BLOCK", "INTEGER", "LONG_INT", "STRING", "LOGICAL", "CHARACTER"}

(* The byte values the keys are drawn from: 0x00, 0x01, 0x7F, 0x80, 0xFF *)
ByteValues == {0, 1, 127, 128, 255}

(* getKeySize: the key size given to initIndex; the size of the type where the
   type fixes it, BlockKeySize for the types of any size *)
getKeySize(kt) ==
    CASE kt = "INTEGER" -> 2
      [] kt = "LONG_INT" -> 4
      [] kt \in {"LOGICAL", "CHARACTER"} -> 1
      [] OTHER -> BlockKeySize

(* fillEOFKey: the bytes of the sentinel's key, byte 1 being keyBlock[0] *)
fillEOFKey(kt) ==
    LET size == getKeySize(kt)
        filled == [i \in 1..size |-> 255]
    IN CASE kt = "STRING" -> [filled EXCEPT ![size] = 0]
         [] kt \in {"NUM_BLOCK", "INTEGER"} -> [filled EXCEPT ![1] = BitAnd(@, 127)]
         [] kt = "LONG_INT" -> [filled EXCEPT ![size] = BitAnd(@, 127)]
         [] OTHER -> filled

(* The value of the first width bytes of key read as a signed integer of the
   build's byte order: least significant byte first, the sign in the last *)
RECURSIVE SignedFrom(_, _, _)
SignedFrom(key, i, width) ==
    IF i = width THEN (IF key[i] >= 128 THEN key[i] - 256 ELSE key[i])
    ELSE key[i] + 256 * SignedFrom(key, i + 1, width)

Signed(key, width) == SignedFrom(key, 1, width)

(* memcmp: the first byte that differs decides, bytes compared unsigned *)
RECURSIVE memcmp(_, _, _)
memcmp(key1, key2, i) ==
    IF i > Len(key1) THEN 0
    ELSE IF key1[i] # key2[i] THEN key1[i] - key2[i]
    ELSE memcmp(key1, key2, i + 1)

(* strcmp: as memcmp, ending at the terminator *)
RECURSIVE strcmp(_, _, _)
strcmp(key1, key2, i) ==
    IF i > Len(key1) THEN 0
    ELSE IF key1[i] # key2[i] THEN key1[i] - key2[i]
    ELSE IF key1[i] = 0 THEN 0
    ELSE strcmp(key1, key2, i + 1)

(* The loop of NUM_BLOCK, from the last byte down to the first *)
RECURSIVE NumBlockCompare(_, _, _)
NumBlockCompare(key1, key2, i) ==
    IF i < 1 THEN 0
    ELSE IF key1[i] # key2[i] THEN (IF key1[i] > key2[i] THEN 1 ELSE -1)
    ELSE NumBlockCompare(key1, key2, i - 1)

(* compare: -1, 0 or 1 *)
compare(kt, key1, key2) ==
    CASE kt = "BLOCK" -> Compare(memcmp(key1, key2, 1), 0)
      [] kt = "NUM_BLOCK" -> NumBlockCompare(key1, key2, getKeySize(kt))
      [] kt = "INTEGER" -> Compare(Signed(key1, 2), Signed(key2, 2))
      [] kt = "LONG_INT" -> Compare(Signed(key1, 4), Signed(key2, 4))
      [] kt = "STRING" -> Compare(strcmp(key1, key2, 1), 0)
      [] kt = "LOGICAL" ->
            LET b1 == key1[1] # 0
                b2 == key2[1] # 0
            IN IF b1 /\ ~b2 THEN 1 ELSE IF ~b1 /\ b2 THEN -1 ELSE 0
      [] kt = "CHARACTER" -> Compare(key1[1], key2[1])
      [] OTHER -> 0

(* The keys a caller passes for an index of type kt: getKeySize bytes, a
   STRING key holding its terminator within them *)
CallerKeys(kt) ==
    {key \in [1..getKeySize(kt) -> ByteValues] :
        kt = "STRING" => key[getKeySize(kt)] = 0}

NoProbe == [keyType |-> "VOID", key |-> <<>>, eofKey |-> <<>>, result |-> 0, pc |-> "none"]

Constructed ==
    /\ nodes = <<>>
    /\ leaves = <<>>
    /\ info = ConstructedInfo
    /\ storedInfo = ConstructedInfo
    /\ position = ResetPositionValue
    /\ currentIndex = 0
    /\ inactive = [i \in IndexNos \ {0} |-> ConstructedIndex]
    /\ fileSize = 1
    /\ errorCode = "OK"
    /\ damaged = {}
    /\ last = Call("construct", 0, 0, 0)
    /\ model = [live |-> [k \in Keys |-> 0], kinds |-> {}, seen |-> {}]
    /\ nops = 0
    /\ owner = 0
    /\ threads = [t \in Threads |-> IdleThread]
    /\ heap = ConstructedHeap

Init == Constructed /\ probe = NoProbe

InitIndexEffect ==
    \E attributes \in AttrChoices, numItems \in MinItems..MaxItems :
       \E S \in {initIndex(Cur, attributes, numItems, BulkNodes, BulkLeaves)} :
          /\ InModel(S)
          /\ Commit(S)
          /\ last' = Call("initIndex", 0, 0, 0)
          /\ UNCHANGED <<model, nops>>

(* The kind of a call in the history: a call made while an error is latched is
   of kind "latched" and leaves the rest of the history alone. *)
Kinds(kind) == model.kinds \cup {IF errorCode # "OK" THEN "latched" ELSE kind}

AppendEffect(k) ==
    \E v \in {NewDataPos} : \E r \in {append(Cur, k, v)} :
       /\ InModel(r.S)
       /\ Commit(r.S)
       /\ last' = Call("append", k, v, BoolRet(r.ret))
       /\ model' = [live |-> IF r.ret /\ Ok(r.S)
                             THEN [model.live EXCEPT ![k] = v] ELSE model.live,
                    kinds |-> Kinds(IF k \in model.seen THEN "reappend" ELSE "append"),
                    seen |-> IF errorCode = "OK" THEN model.seen \cup {k} ELSE model.seen]
       /\ nops' = nops + 1

DeleteKeyEffect(k) ==
    \E r \in {deleteKey(Cur, k)} :
       /\ InModel(r.S)
       /\ Commit(r.S)
       /\ last' = Call("deleteKey", k, 0, BoolRet(r.ret))
       /\ model' = [model EXCEPT
                       !.live = IF r.ret /\ Ok(r.S) THEN [@ EXCEPT ![k] = 0] ELSE @,
                       !.kinds = Kinds("deleteKey")]
       /\ nops' = nops + 1

DeleteCurrentEffect ==
    \E r \in {deleteCurrent(Cur)} :
       /\ InModel(r.S)
       /\ Commit(r.S)
       /\ last' = Call("deleteCurrent", 0, 0, r.ret)
       /\ model' = [model EXCEPT !.kinds = Kinds("deleteCurrent")]
       /\ nops' = nops + 1

(* The calls that move the cursor only *)
ReadEffect(r) ==
    /\ InModel(r.S)
    /\ Commit(r.S)
    /\ UNCHANGED <<last, model, nops>>

----------------------------------------------------------------------------
(* One caller: each public operation is one action *)

Sequential == UNCHANGED <<owner, threads, heap, probe>>

InitIndex ==
    /\ ~Initialised
    /\ InitIndexEffect
    /\ Sequential

AppendOp(limit) ==
    /\ Initialised
    /\ nops < limit
    /\ \E k \in Keys : AppendEffect(k)
    /\ Sequential

DeleteKeyOp(limit) ==
    /\ Initialised
    /\ nops < limit
    /\ \E k \in Keys : DeleteKeyEffect(k)
    /\ Sequential

DeleteCurrentOp(limit) ==
    /\ Initialised
    /\ nops < limit
    /\ DeleteCurrentEffect
    /\ Sequential

AppendCall == AppendOp(MaxOps)

DeleteKeyCall == DeleteKeyOp(MaxOps)

DeleteCurrentCall == DeleteCurrentOp(MaxOps)

FindCall ==
    /\ Initialised
    /\ \E k \in Keys : ReadEffect(find(Cur, k))
    /\ Sequential

GetFirstCall ==
    /\ Initialised
    /\ ReadEffect(getFirst(Cur))
    /\ Sequential

GetNextCall ==
    /\ Initialised
    /\ ReadEffect(getNext(Cur))
    /\ Sequential

GetPrevCall ==
    /\ Initialised
    /\ ReadEffect(getPrev(Cur))
    /\ Sequential

GetCurrentCall ==
    /\ Initialised
    /\ ReadEffect(getCurrent(Cur))
    /\ Sequential

Next ==
    \/ InitIndex
    \/ AppendCall
    \/ DeleteKeyCall
    \/ DeleteCurrentCall
    \/ FindCall
    \/ GetFirstCall
    \/ GetNextCall
    \/ GetPrevCall
    \/ GetCurrentCall

Spec == Init /\ [][Next]_vars

----------------------------------------------------------------------------
(* One caller and a failing medium: a block of the file may lose its checksum,
   a read may fail, and the caller may clear the latched error *)

(* The environment damages a block of the file. *)
Damage ==
    /\ Cardinality(damaged) < MaxDamaged
    /\ \E p \in (DOMAIN nodes \cup DOMAIN leaves) \ damaged : damaged' = damaged \cup {p}
    /\ UNCHANGED <<nodes, leaves, info, storedInfo, position, currentIndex, inactive,
                   fileSize, errorCode, last, model, nops>>
    /\ Sequential

(* find whose first read of the file fails: File::read latches READ_ERROR and
   throws before anything was changed. *)
FindReadFails ==
    /\ Initialised
    /\ errorCode = "OK"
    /\ "ioError" \notin model.kinds
    /\ errorCode' = "READ_ERROR"
    /\ model' = [model EXCEPT !.kinds = @ \cup {"ioError"}]
    /\ UNCHANGED <<nodes, leaves, info, storedInfo, position, currentIndex, inactive,
                   fileSize, damaged, last, nops>>
    /\ Sequential

ClearErrorCall ==
    /\ errorCode # "OK"
    /\ Commit(clearError(Cur))
    /\ last' = Call("clearError", 0, 0, 0)
    /\ model' = [model EXCEPT !.kinds = @ \cup {"clearError"}]
    /\ UNCHANGED nops
    /\ Sequential

(* initIndex on a fresh handle, or called again while an error is latched *)
InitIndexFault ==
    /\ ~Initialised \/ errorCode # "OK"
    /\ InitIndexEffect
    /\ Sequential

AppendFault == AppendOp(MaxFaultOps)

DeleteKeyFault == DeleteKeyOp(MaxFaultOps)

DeleteCurrentFault == DeleteCurrentOp(MaxFaultOps)

SetActiveIndexCall ==
    /\ ReadEffect([S |-> setActiveIndex(Cur, 1)])
    /\ Sequential

FlushIndexCall ==
    /\ ReadEffect([S |-> flushIndex(Cur)])
    /\ Sequential

FlushFileCall ==
    /\ ReadEffect([S |-> flushFile(Cur)])
    /\ Sequential

NextFault ==
    \/ InitIndexFault
    \/ AppendFault
    \/ DeleteKeyFault
    \/ DeleteCurrentFault
    \/ FindCall
    \/ GetFirstCall
    \/ GetNextCall
    \/ GetPrevCall
    \/ GetCurrentCall
    \/ SetActiveIndexCall
    \/ FlushIndexCall
    \/ FlushFileCall
    \/ Damage
    \/ FindReadFails
    \/ ClearErrorCall

SpecFault == Init /\ [][NextFault]_vars

----------------------------------------------------------------------------
(* One caller working on the NumIndexes indexes of the file, flushing, and
   closing and re-opening the file *)

(* initIndex of the active index, each index with ALLOW_DELETE as the indexes
   of the SwitchingIndexes test are *)
InitIndexMulti ==
    /\ ~Initialised
    /\ \E numItems \in MinItems..MaxItems :
          \E S \in {initIndex(Cur, ALLOW_DELETE, numItems, BulkNodes, BulkLeaves)} :
             /\ InModel(S)
             /\ Commit(S)
             /\ last' = Call("initIndex", 0, 0, 0)
             /\ UNCHANGED <<model, nops>>
    /\ Sequential

SwitchIndex ==
    /\ \E indexNo \in 0..NumIndexes : ReadEffect([S |-> setActiveIndex(Cur, indexNo)])
    /\ Sequential

(* A call that changes the active index; the history of the single-index
   specifications is not kept here. *)
MultiEffect(r) ==
    /\ InModel(r.S)
    /\ Commit(r.S)
    /\ nops' = nops + 1
    /\ UNCHANGED <<last, model>>

AppendMulti ==
    /\ Initialised
    /\ nops < MaxMultiOps
    /\ \E k \in 1..MaxMultiKey : MultiEffect(append(Cur, k, NewDataPos))
    /\ Sequential

DeleteKeyMulti ==
    /\ Initialised
    /\ nops < MaxMultiOps
    /\ \E k \in 1..MaxMultiKey : MultiEffect(deleteKey(Cur, k))
    /\ Sequential

DeleteCurrentMulti ==
    /\ Initialised
    /\ nops < MaxMultiOps
    /\ MultiEffect(deleteCurrent(Cur))
    /\ Sequential

Reopen ==
    /\ Commit(closeAndReopen(Cur))
    /\ last' = Call("reopen", 0, 0, 0)
    /\ UNCHANGED <<model, nops>>
    /\ Sequential

NextMulti ==
    \/ InitIndexMulti
    \/ SwitchIndex
    \/ AppendMulti
    \/ DeleteKeyMulti
    \/ DeleteCurrentMulti
    \/ FindCall
    \/ GetFirstCall
    \/ GetNextCall
    \/ GetPrevCall
    \/ GetCurrentCall
    \/ Reopen

SpecMulti == Init /\ [][NextMulti]_vars

----------------------------------------------------------------------------
(* Several callers on one handle: every public operation takes m_indexMutex
   (LockGuard) for the whole of its body *)

KeyedOps == {"append", "find", "deleteKey"}

CursorOps == {"deleteCurrent", "getFirst", "getNext", "getPrev", "getCurrent",
              "isEOF", "isBOF"}

Holding(t, op) == owner = t /\ threads[t].pc = "locked" /\ threads[t].op = op

(* A thread enters a public operation: the LockGuard is constructed. *)
Acquire(t) ==
    /\ Initialised
    /\ owner = 0
    /\ threads[t].pc = "idle"
    /\ threads[t].n < MaxThreadCalls
    /\ \/ \E op \in KeyedOps, k \in Keys :
             threads' = [threads EXCEPT ![t] = [@ EXCEPT !.pc = "locked", !.op = op,
                                                         !.key = k]]
       \/ \E op \in CursorOps :
             threads' = [threads EXCEPT ![t] = [@ EXCEPT !.pc = "locked", !.op = op,
                                                         !.key = 0]]
    /\ owner' = t
    /\ FileUnchanged
    /\ UNCHANGED <<last, model, nops, heap, probe>>

(* The operation returns ret: the LockGuard is destroyed. *)
Release(t, ret) ==
    /\ owner' = 0
    /\ threads' = [threads EXCEPT ![t] = [@ EXCEPT !.pc = "idle", !.ret = ret,
                                                   !.n = @ + 1]]
    /\ UNCHANGED <<heap, probe>>

AppendRun(t) ==
    /\ Holding(t, "append")
    /\ AppendEffect(threads[t].key)
    /\ Release(t, last'.ret)

DeleteKeyRun(t) ==
    /\ Holding(t, "deleteKey")
    /\ DeleteKeyEffect(threads[t].key)
    /\ Release(t, last'.ret)

DeleteCurrentRun(t) ==
    /\ Holding(t, "deleteCurrent")
    /\ DeleteCurrentEffect
    /\ Release(t, last'.ret)

FindRun(t) ==
    /\ Holding(t, "find")
    /\ \E r \in {find(Cur, threads[t].key)} : ReadEffect(r) /\ Release(t, r.ret)

GetFirstRun(t) ==
    /\ Holding(t, "getFirst")
    /\ \E r \in {getFirst(Cur)} : ReadEffect(r) /\ Release(t, r.ret)

GetNextRun(t) ==
    /\ Holding(t, "getNext")
    /\ \E r \in {getNext(Cur)} : ReadEffect(r) /\ Release(t, r.ret)

GetPrevRun(t) ==
    /\ Holding(t, "getPrev")
    /\ \E r \in {getPrev(Cur)} : ReadEffect(r) /\ Release(t, r.ret)

GetCurrentRun(t) ==
    /\ Holding(t, "getCurrent")
    /\ \E r \in {getCurrent(Cur)} : ReadEffect(r) /\ Release(t, r.ret)

IsEOFRun(t) ==
    /\ Holding(t, "isEOF")
    /\ ReadEffect([S |-> Cur])
    /\ Release(t, BoolRet(isEOF(Cur)))

IsBOFRun(t) ==
    /\ Holding(t, "isBOF")
    /\ ReadEffect([S |-> Cur])
    /\ Release(t, BoolRet(isBOF(Cur)))

NextConc ==
    \/ InitIndex
    \/ \E t \in Threads : Acquire(t)
    \/ \E t \in Threads : AppendRun(t)
    \/ \E t \in Threads : DeleteKeyRun(t)
    \/ \E t \in Threads : DeleteCurrentRun(t)
    \/ \E t \in Threads : FindRun(t)
    \/ \E t \in Threads : GetFirstRun(t)
    \/ \E t \in Threads : GetNextRun(t)
    \/ \E t \in Threads : GetPrevRun(t)
    \/ \E t \in Threads : GetCurrentRun(t)
    \/ \E t \in Threads : IsEOFRun(t)
    \/ \E t \in Threads : IsBOFRun(t)

SpecConc == Init /\ [][NextConc]_vars

----------------------------------------------------------------------------
(* Several callers that select an index and then operate on it: setActiveIndex
   and the operation are two public calls, each holding m_indexMutex for its
   own body only, so each is one step and other callers' calls come between *)

(* getActiveIndex: the 1-based number of m_currentIndex *)
getActiveIndex(S) == S.cur + 1

InitIndexSelected ==
    /\ ~Initialised
    /\ \E S \in {initIndex(Cur, ALLOW_DELETE, MaxItems, BulkNodes, BulkLeaves)} :
          InModel(S) /\ Commit(S)
    /\ UNCHANGED <<last, model, nops, owner, threads, heap, probe>>

(* Thread t calls setActiveIndex(indexNo); key keeps the index it asked for. *)
SelectIndex(t) ==
    /\ threads[t].pc = "idle"
    /\ threads[t].n < MaxThreadCalls
    /\ \E indexNo \in 1..NumIndexes :
          \E S \in {setActiveIndex(Cur, indexNo)} :
             /\ InModel(S)
             /\ Commit(S)
             /\ last' = Call("setActiveIndex", indexNo, t, 0)
             /\ threads' = [threads EXCEPT ![t] = [@ EXCEPT !.pc = "selected",
                                                            !.key = indexNo]]
    /\ UNCHANGED <<model, nops, owner, heap, probe>>

(* Thread t calls append; ret keeps the index the call worked on, read under
   the lock of the call. *)
AppendSelected(t) ==
    /\ threads[t].pc = "selected"
    /\ Initialised
    /\ \E k \in 1..MaxMultiKey : \E r \in {append(Cur, k, NewDataPos)} :
          /\ InModel(r.S)
          /\ Commit(r.S)
          /\ threads' = [threads EXCEPT ![t] = [@ EXCEPT !.pc = "idle", !.op = "append",
                                                         !.ret = getActiveIndex(Cur),
                                                         !.n = @ + 1]]
    /\ nops' = nops + 1
    /\ UNCHANGED <<last, model, owner, heap, probe>>

NextSelect ==
    \/ InitIndexSelected
    \/ \E t \in Threads : SelectIndex(t)
    \/ \E t \in Threads : AppendSelected(t)

SpecSelect == Init /\ [][NextSelect]_vars

----------------------------------------------------------------------------
(* What a caller can observe of the index *)

(* The data position find returns for key k *)
----------------------------------------------------------------------------
(* Callers of the heap file: each call holds m_heapMutex (allocateSpace) or the
   file mutex (write) from entry to return, so a call is one step *)

FileIdle == UNCHANGED <<nodes, leaves, info, storedInfo, position, currentIndex, inactive,
                        fileSize, errorCode, damaged, last, model, nops, owner, threads>>

HeapIdle == FileIdle /\ UNCHANGED probe

(* Thread t asks for size bytes and keeps the position it is given *)
AllocateSpaceCall ==
    /\ Len(heap.live) < MaxAllocs
    /\ heap.firstHolesTablePos = INVALID_POSITION
    /\ \E t \in Threads, size \in 1..MaxRecordSize :
          heap' = [heap EXCEPT !.live = Append(@, [pos |-> allocateSpace(heap, size),
                                                   size |-> size, thread |-> t,
                                                   written |-> FALSE])]
    /\ HeapIdle

(* The holder of an allocation writes its record at the position it was given *)
WriteRecordCall ==
    /\ \E i \in DOMAIN heap.live :
          /\ ~heap.live[i].written
          /\ heap' = [write(heap, heap.live[i].size, heap.live[i].pos)
                         EXCEPT !.live[i].written = TRUE]
    /\ HeapIdle

NextHeap ==
    \/ AllocateSpaceCall
    \/ WriteRecordCall

SpecHeap == Init /\ [][NextHeap]_vars

----------------------------------------------------------------------------
(* Comparing a caller's key with the sentinel's: an index of every key type,
   every key of CallerKeys *)

InitCompare ==
    /\ Constructed
    /\ \E kt \in KeyTypes : \E key \in CallerKeys(kt) :
          probe = [keyType |-> kt, key |-> key, eofKey |-> <<>>, result |-> 0,
                   pc |-> "fill"]

(* createFirstNode fills the sentinel's key *)
FillEOFKeyCall ==
    /\ probe.pc = "fill"
    /\ probe' = [probe EXCEPT !.eofKey = fillEOFKey(probe.keyType), !.pc = "compare"]
    /\ FileIdle
    /\ UNCHANGED heap

(* A descent compares the caller's key with the sentinel's *)
CompareCall ==
    /\ probe.pc = "compare"
    /\ probe' = [probe EXCEPT
                    !.result = IF errorCode # "OK" THEN 0
                               ELSE compare(probe.keyType, probe.key, probe.eofKey),
                    !.pc = "done"]
    /\ FileIdle
    /\ UNCHANGED heap

NextCompare ==
    \/ FillEOFKeyCall
    \/ CompareCall

SpecCompare == InitCompare /\ [][NextCompare]_vars

----------------------------------------------------------------------------
(* The search inside one node, for every sorted node and every key within the
   bounds: binarySearchNode, and the linear scan it replaced *)

(* The scan of the earlier insertKey: keyNo advances while the new key is
   greater than the key at keyNo; comp is the result of the last comparison
   made, 0 when none was made. *)
RECURSIVE LinearScanLoop(_, _, _, _)
LinearScanLoop(items, key, keyNo, comp) ==
    IF keyNo <= Len(items)
    THEN With([c \in {Compare(key, items[keyNo].key)} |->
            IF c = 1 THEN LinearScanLoop(items, key, keyNo + 1, c)
            ELSE [keyNo |-> keyNo, comp |-> c]])
    ELSE [keyNo |-> keyNo, comp |-> comp]

linearScan(items, key) == LinearScanLoop(items, key, 1, 0)

(* The nodes a search can meet: up to MaxItems entries with ascending keys *)
SortedNodes ==
    {items \in UNION {[1..n -> [key : 1..MaxSearchKey, child : {0}]] : n \in 0..MaxItems} :
        \A i \in 1..(Len(items) - 1) : items[i].key < items[i + 1].key}

InitSearch ==
    /\ Constructed
    /\ \E items \in SortedNodes, k \in 1..MaxSearchKey :
          probe = [pc |-> "search", node |-> items, key |-> k,
                   found |-> [keyNo |-> 0, exactMatch |-> FALSE],
                   scanned |-> [keyNo |-> 0, comp |-> 0]]

BinarySearchNodeCall ==
    /\ probe.pc = "search"
    /\ probe' = [probe EXCEPT !.found = binarySearchNode(probe.node, probe.key),
                              !.pc = "scan"]
    /\ FileIdle
    /\ UNCHANGED heap

LinearScanCall ==
    /\ probe.pc = "scan"
    /\ probe' = [probe EXCEPT !.scanned = linearScan(probe.node, probe.key),
                              !.pc = "done"]
    /\ FileIdle
    /\ UNCHANGED heap

NextSearch ==
    \/ BinarySearchNodeCall
    \/ LinearScanCall

SpecSearch == InitSearch /\ [][NextSearch]_vars

Found(S, k) == find(S, k).ret

(* The leaf chain from firstLeave up to the sentinel, as block positions *)
RECURSIVE ChainFrom(_, _, _)
ChainFrom(S, pos, fuel) ==
    IF fuel = 0 \/ pos = INVALID_POSITION \/ pos = S.info.lastLeave
       \/ pos \notin DOMAIN S.leaves
    THEN <<>>
    ELSE <<pos>> \o ChainFrom(S, S.leaves[pos].next, fuel - 1)

Chain(S) == ChainFrom(S, S.info.firstLeave, Cardinality(DOMAIN S.leaves))

Range(f) == {f[i] : i \in DOMAIN f}

KeyOf(S, p) == S.leaves[p].key

(* The (key, dataPos) pairs getFirst and repeated getNext return, up to the
   first call that returns -1 *)
RECURSIVE TraverseNext(_, _)
TraverseNext(S, fuel) ==
    With([r \in {getNext(S)} |->
       IF r.ret = INVALID_POSITION \/ fuel = 0 THEN <<>>
       ELSE <<[key |-> r.key, dataPos |-> r.ret]>> \o TraverseNext(r.S, fuel - 1)])

Traverse(S) ==
    With([r \in {getFirst(S)} |->
       IF r.ret = INVALID_POSITION THEN <<>>
       ELSE <<[key |-> r.key, dataPos |-> r.ret]>> \o TraverseNext(r.S, MaxOps + 1)])

(* The history: the keys whose last successful append was not followed by a
   successful deleteKey, in ascending order, with the value appended *)
LiveKeys == SelectSeq([k \in 1..MaxKey |-> k], LAMBDA k : model.live[k] # 0)

Expected ==
    [i \in 1..Len(LiveKeys) |-> [key |-> LiveKeys[i], dataPos |-> model.live[LiveKeys[i]]]]

(* Every call that changed the index so far was an append of a key not
   appended before *)
DistinctAppendsOnly == model.kinds = {"append"}

AppendStep == last'.op = "append" /\ nops' = nops + 1

DeleteKeyStep == last'.op = "deleteKey" /\ nops' = nops + 1

DeleteCurrentStep == last'.op = "deleteCurrent" /\ nops' = nops + 1

OnRealLeaf == position.currentLeave \in Range(Chain(Cur))

(* The positions linked from head through the next field: a free list *)
RECURSIVE FreeList(_, _, _)
FreeList(blocks, head, fuel) ==
    IF fuel = 0 \/ head \notin DOMAIN blocks THEN {}
    ELSE {head} \cup FreeList(blocks, blocks[head].next, fuel - 1)

(* The node positions reached from pos through the child positions, pos being
   level levels above the leaves *)
RECURSIVE TreeNodes(_, _, _)
TreeNodes(S, pos, level) ==
    IF level < 1 \/ pos \notin DOMAIN S.nodes THEN {}
    ELSE {pos} \cup UNION {TreeNodes(S, S.nodes[pos].items[i].child, level - 1) :
                              i \in DOMAIN S.nodes[pos].items}

(* All that belongs to the active index of S: descriptor, cursor, the nodes of
   its tree and of its free list, the leaves of its chain (sentinel included)
   and of its free list, each with its contents *)
Structure(S) ==
    LET ownNodes == TreeNodes(S, S.info.rootNode, S.info.numLevels)
                       \cup FreeList(S.nodes, S.info.freeNode, Cardinality(DOMAIN S.nodes))
        ownLeaves == Range(Chain(S)) \cup ({S.info.lastLeave} \cap DOMAIN S.leaves)
                       \cup FreeList(S.leaves, S.info.freeLeave, Cardinality(DOMAIN S.leaves))
    IN [info |-> S.info, pos |-> S.pos,
        nodes |-> [p \in ownNodes |-> S.nodes[p]],
        leaves |-> [p \in ownLeaves |-> S.leaves[p]]]

(* The keys held by the leaves of the chain *)
ChainKeys(S) == {KeyOf(S, p) : p \in Range(Chain(S))}

(* The first leaf of the chain whose key is greater than k, the EOF sentinel
   when there is none *)
LeafAbove(S, k) ==
    LET above == SelectSeq(Chain(S), LAMBDA p : KeyOf(S, p) > k)
    IN IF above # <<>> THEN above[1] ELSE S.info.lastLeave

(* The keys of the leaves under the block at pos, pos being level levels above
   the leaves (level 0: pos is a leaf) *)
RECURSIVE SubtreeKeys(_, _, _)
SubtreeKeys(S, pos, level) ==
    IF level < 1 THEN {LeaveAt(S, pos).key}
    ELSE UNION {SubtreeKeys(S, NodeAt(S, pos).items[i].child, level - 1) :
                   i \in DOMAIN NodeAt(S, pos).items}

(* Every entry (key, child) of the node at pos and of the nodes below it has the
   greatest key under child as its key *)
RECURSIVE RoutingHolds(_, _, _)
RoutingHolds(S, pos, level) ==
    \A i \in DOMAIN NodeAt(S, pos).items :
       LET item == NodeAt(S, pos).items[i]
           below == SubtreeKeys(S, item.child, level - 1)
       IN /\ below # {}
          /\ \A k \in below : k <= item.key
          /\ item.key \in below
          /\ level > 1 => RoutingHolds(S, item.child, level - 1)

(* The routing keys of the node at pos ascend (strictly when strict), and the
   first key of its right sibling continues the order *)
NodeOrdered(S, pos, strict) ==
    LET items == NodeAt(S, pos).items
        right == NodeAt(S, NodeAt(S, pos).next).items
        InOrder(a, b) == IF strict THEN a < b ELSE a <= b
    IN /\ \A i \in 1..(Len(items) - 1) : InOrder(items[i].key, items[i + 1].key)
       /\ (items # <<>> /\ right # <<>>) => InOrder(items[Len(items)].key, right[1].key)

(* The leaves met from pos through the prev links, nearest first *)
RECURSIVE BackFrom(_, _, _)
BackFrom(S, pos, fuel) ==
    IF fuel = 0 \/ pos \notin DOMAIN S.leaves THEN <<>>
    ELSE <<pos>> \o BackFrom(S, S.leaves[pos].prev, fuel - 1)

(* The leaf blocks that are neither on the free list nor the EOF sentinel *)
LiveLeaves(S) ==
    (DOMAIN S.leaves \ FreeList(S.leaves, S.info.freeLeave, Cardinality(DOMAIN S.leaves)))
       \ {S.info.lastLeave}

(* Following next from head leaves the blocks within fuel steps: the list
   from head holds no block twice *)
RECURSIVE FreeListEnds(_, _, _)
FreeListEnds(blocks, head, fuel) ==
    IF head \notin DOMAIN blocks THEN TRUE
    ELSE IF fuel = 0 THEN FALSE
    ELSE FreeListEnds(blocks, blocks[head].next, fuel - 1)

(* The node blocks the tree refers to: rootNode, the child positions above the
   bottom level, and the sibling links of those nodes *)
UsedNodes(S) ==
    LET inTree == TreeNodes(S, S.info.rootNode, S.info.numLevels)
    IN (inTree \cup {S.nodes[p].next : p \in inTree} \cup {S.nodes[p].prev : p \in inTree})
          \cap DOMAIN S.nodes

(* The leaf blocks the tree refers to: firstLeave, lastLeave, the leaves of the
   chain with their links, and the child positions of the bottom level *)
UsedLeaves(S) ==
    LET onChain == Range(Chain(S)) \cup ({S.info.firstLeave, S.info.lastLeave}
                                            \cap DOMAIN S.leaves)
        bottom == {p \in TreeNodes(S, S.info.rootNode, S.info.numLevels) :
                     \A i \in DOMAIN S.nodes[p].items :
                        S.nodes[p].items[i].child \notin
                           TreeNodes(S, S.info.rootNode, S.info.numLevels)}
    IN (onChain \cup {S.leaves[p].next : p \in onChain}
                \cup {S.leaves[p].prev : p \in onChain}
                \cup UNION {{S.nodes[p].items[i].child : i \in DOMAIN S.nodes[p].items} :
                               p \in bottom})
          \cap DOMAIN S.leaves

(* The tree of the active index: the leaves of the chain in order with their
   contents, the EOF sentinel, the nodes reached from the root with their
   contents, and the descriptor fields that address them *)
TreeShape(S) ==
    [firstLeave |-> S.info.firstLeave, lastLeave |-> S.info.lastLeave,
     rootNode |-> S.info.rootNode, numLevels |-> S.info.numLevels,
     chain |-> [i \in DOMAIN Chain(S) |-> [pos |-> Chain(S)[i], leave |-> S.leaves[Chain(S)[i]]]],
     sentinel |-> LeaveAt(S, S.info.lastLeave),
     nodes |-> [p \in TreeNodes(S, S.info.rootNode, S.info.numLevels) |-> S.nodes[p]]]

(* The bottom-level node reached from pos, level levels above the leaves, by
   following the last entry of every node *)
RECURSIVE RightmostBottom(_, _, _)
RightmostBottom(S, pos, level) ==
    IF level <= 1 \/ pos \notin DOMAIN S.nodes THEN pos
    ELSE IF S.nodes[pos].items = <<>> THEN INVALID_POSITION
    ELSE RightmostBottom(S, S.nodes[pos].items[Len(S.nodes[pos].items)].child, level - 1)

(* The EOF sentinel of createFirstNode is where it was put: lastLeave addresses
   it, it has no successor and no data, it is not on the free list, and the
   last entry of the rightmost bottom-level node addresses it *)
SentinelInPlace(S) ==
    LET eof == S.info.lastLeave
        bottom == RightmostBottom(S, S.info.rootNode, S.info.numLevels)
    IN /\ eof \in DOMAIN S.leaves
       /\ S.leaves[eof].next = INVALID_POSITION
       /\ S.leaves[eof].dataPos = INVALID_POSITION
       /\ eof \notin FreeList(S.leaves, S.info.freeLeave, Cardinality(DOMAIN S.leaves))
       /\ bottom \in DOMAIN S.nodes
       /\ S.nodes[bottom].items # <<>>
       /\ S.nodes[bottom].items[Len(S.nodes[bottom].items)].child = eof

(* S is what a call has written so far: the call either ran to its end without
   an error, or went on to write at INVALID_POSITION, which File::write turns
   into a write at the stream's current position *)
Followed(S) == S.err \in {"OK", "OUT_OF_LAYOUT"}

(* Nodes of up to FillItems entries: with M = FillItems two neighbouring nodes
   can hold M / 2 entries between them, which is when removeKey merges *)

InitIndexFill ==
    /\ ~Initialised
    /\ \E numItems \in MaxItems..FillItems :
          \E S \in {initIndex(Cur, ALLOW_DELETE, numItems, BulkNodes, BulkLeaves)} :
             /\ InModel(S)
             /\ Commit(S)
             /\ last' = Call("initIndex", 0, 0, 0)
             /\ UNCHANGED <<model, nops>>
    /\ Sequential

(* The caller loads the index with keys it does not hold, in any order, and
   then deletes keys the index holds *)
AppendFill ==
    /\ Initialised
    /\ nops < MaxFillOps
    /\ "deleteKey" \notin model.kinds
    /\ \E k \in 1..MaxFillKey : k \notin ChainKeys(Cur) /\ AppendEffect(k)
    /\ Sequential

(* The nodes of the tree of S that held two entries or more and are no longer
   in the tree of T: removeKey merged them into their right siblings *)
MergedNodes(S, T) ==
    {p \in TreeNodes(S, S.info.rootNode, S.info.numLevels) :
        /\ p \notin TreeNodes(T, T.info.rootNode, T.info.numLevels)
        /\ Len(S.nodes[p].items) >= 2}

(* The history keeps, as val, the number of nodes the call merged *)
DeleteKeyFill ==
    /\ Initialised
    /\ nops < MaxFillOps
    /\ \E k \in 1..MaxFillKey :
          /\ k \in ChainKeys(Cur)
          /\ \E r \in {deleteKey(Cur, k)} :
                /\ InModel(r.S)
                /\ Commit(r.S)
                /\ last' = Call("deleteKey", k, Cardinality(MergedNodes(Cur, r.S)),
                                BoolRet(r.ret))
                /\ model' = [model EXCEPT !.kinds = Kinds("deleteKey")]
                /\ nops' = nops + 1
    /\ Sequential

NextFill ==
    \/ InitIndexFill
    \/ AppendFill
    \/ DeleteKeyFill

SpecFill == Init /\ [][NextFill]_vars

(* The workload of the stress scenarios: M = MaxItems with ALLOW_DELETE, the
   keys 1..BulkKeys appended in ascending order, then deleteKey for every
   odd-numbered key in ascending order; the caller may traverse at any time *)

InitIndexBulk ==
    /\ ~Initialised
    /\ \E S \in {initIndex(Cur, ALLOW_DELETE, MaxItems, BulkNodes, BulkLeaves)} :
          /\ InModel(S)
          /\ Commit(S)
          /\ last' = Call("initIndex", 0, 0, 0)
          /\ UNCHANGED <<model, nops>>
    /\ Sequential

OddKeys == {k \in 1..BulkKeys : k % 2 = 1}

AppendBulk ==
    /\ Initialised
    /\ nops < BulkKeys
    /\ AppendEffect(nops + 1)
    /\ Sequential

DeleteOddBulk ==
    /\ Initialised
    /\ nops >= BulkKeys
    /\ nops < BulkKeys + Cardinality(OddKeys)
    /\ DeleteKeyEffect(2 * (nops - BulkKeys) + 1)
    /\ Sequential

NextBulk ==
    \/ InitIndexBulk
    \/ AppendBulk
    \/ DeleteOddBulk
    \/ GetFirstCall
    \/ GetNextCall

SpecBulk == Init /\ [][NextBulk]_vars

(* S2: every key is appended; S3: every odd-numbered key is deleted as well *)
LoadDone == Initialised /\ nops = BulkKeys

OddDeleted == Initialised /\ nops = BulkKeys + Cardinality(OddKeys)

(* ceil(M / 2) *)
MinFill(M) == (M + 1) \div 2

(* Every path from block pos, level levels above the leaves, passes through
   level nodes of the tree and ends in a leaf block that is not free *)
RECURSIVE UniformDepth(_, _, _)
UniformDepth(S, pos, level) ==
    IF level = 0
    THEN pos \in DOMAIN S.leaves
         /\ pos \notin FreeList(S.leaves, S.info.freeLeave, Cardinality(DOMAIN S.leaves))
    ELSE /\ pos \in DOMAIN S.nodes
         /\ pos \notin FreeList(S.nodes, S.info.freeNode, Cardinality(DOMAIN S.nodes))
         /\ \A i \in DOMAIN S.nodes[pos].items :
               UniformDepth(S, S.nodes[pos].items[i].child, level - 1)

(* The nodes at depth depth below pos (depth 1: pos itself) *)
RECURSIVE NodesAtDepth(_, _, _)
NodesAtDepth(S, pos, depth) ==
    IF pos \notin DOMAIN S.nodes THEN {}
    ELSE IF depth <= 1 THEN {pos}
    ELSE UNION {NodesAtDepth(S, S.nodes[pos].items[i].child, depth - 1) :
                   i \in DOMAIN S.nodes[pos].items}

(* The node at depth depth reached from pos through the first entries *)
RECURSIVE LeftmostAtDepth(_, _, _)
LeftmostAtDepth(S, pos, depth) ==
    IF depth <= 1 \/ pos \notin DOMAIN S.nodes THEN pos
    ELSE IF S.nodes[pos].items = <<>> THEN INVALID_POSITION
    ELSE LeftmostAtDepth(S, S.nodes[pos].items[1].child, depth - 1)

(* The nodes met from pos by following nextNode *)
RECURSIVE SiblingsFrom(_, _, _)
SiblingsFrom(S, pos, fuel) ==
    IF fuel = 0 \/ pos \notin DOMAIN S.nodes THEN <<>>
    ELSE <<pos>> \o SiblingsFrom(S, S.nodes[pos].next, fuel - 1)

(* The sibling list of the level at depth depth is the doubly-linked list of
   exactly the nodes of the tree at that depth, in ascending key order *)
SiblingListHolds(S, depth) ==
    LET list == SiblingsFrom(S, LeftmostAtDepth(S, S.info.rootNode, depth),
                             Cardinality(DOMAIN S.nodes) + 1)
        Items(i) == S.nodes[list[i]].items
    IN /\ Range(list) = NodesAtDepth(S, S.info.rootNode, depth)
       /\ Len(list) = Cardinality(Range(list))
       /\ Range(list) \cap FreeList(S.nodes, S.info.freeNode, Cardinality(DOMAIN S.nodes)) = {}
       /\ list # <<>> => S.nodes[list[1]].prev = INVALID_POSITION
       /\ \A i \in 1..(Len(list) - 1) :
             /\ S.nodes[list[i + 1]].prev = list[i]
             /\ (Items(i) # <<>> /\ Items(i + 1) # <<>>) =>
                   Items(i)[Len(Items(i))].key <= Items(i + 1)[1].key

(* The blocks of a free list from head, in list order *)
RECURSIVE FreeSeq(_, _, _)
FreeSeq(blocks, head, fuel) ==
    IF fuel = 0 \/ head \notin DOMAIN blocks THEN <<>>
    ELSE <<head>> \o FreeSeq(blocks, blocks[head].next, fuel - 1)

(* The positions first, first + 1, ..., first + n - 1 in that order *)
FreshBlocks(first, n) == [i \in 1..n |-> first + i - 1]

(* An index created with any bulk counts, then filled and emptied so that the
   free lists run out and are replenished *)
InitIndexAlloc ==
    /\ ~Initialised
    /\ \E freeCreateNodes \in 0..BulkNodes, freeCreateLeaves \in 0..BulkLeaves :
          \E S \in {initIndex(Cur, ALLOW_DELETE, MaxItems, freeCreateNodes,
                              freeCreateLeaves)} :
             /\ InModel(S)
             /\ Commit(S)
             /\ last' = Call("initIndex", freeCreateNodes, freeCreateLeaves, 0)
             /\ UNCHANGED <<model, nops>>
    /\ Sequential

NextAlloc ==
    \/ InitIndexAlloc
    \/ AppendOp(MaxOps)
    \/ DeleteKeyOp(MaxOps)

SpecAlloc == Init /\ [][NextAlloc]_vars

(* What find and the complete traversal answer on each index of the file *)
AnswersOf(S) ==
    [i \in IndexNos |->
       With([V \in {setActiveIndex(S, i + 1)} |->
          [finds |-> [k \in Keys |-> Found(V, k)], traversal |-> Traverse(V)]])]

----------------------------------------------------------------------------
(* The claims *)

(* C1: after a sequence of appends with pairwise distinct keys, find(k_i)
   returns v_i for every key appended. *)
C1_InsertFindRoundTrip ==
    DistinctAppendsOnly => \A k \in model.seen : Found(Cur, k) = model.live[k]

(* C2: in a UNIQUE index, once append(k, v1) succeeded (and k was not deleted
   since), another append of k returns false and find(k) still returns v1. *)
C2_UniqueRejection ==
    [][(/\ AppendStep
        /\ isUnique(Cur)
        /\ "deleteCurrent" \notin model.kinds
        /\ model.live[last'.key] # 0)
       => (/\ last'.ret = 0
           /\ Found(Cur', last'.key) = model.live[last'.key])]_vars

(* C3: in an index without UNIQUE, append of a key that is already present
   returns true and the leaf chain grows by one leaf; a duplicate is rejected
   only when UNIQUE is set. *)
C3_NonUniqueDuplicateAccepted ==
    [][(/\ AppendStep
        /\ ~isUnique(Cur)
        /\ Found(Cur, last'.key) # INVALID_POSITION)
       => (/\ last'.ret = 1
           /\ Len(Chain(Cur')) = Len(Chain(Cur)) + 1)]_vars

(* C4: after appending n distinct keys in any order, getFirst and repeated
   getNext return the n (key, dataPos) pairs once each in ascending key order,
   and the call after the greatest key returns -1. *)
C4_AscendingTraversal ==
    DistinctAppendsOnly => Traverse(Cur) = Expected

(* C5: after deleteKey(k) returned true, find(k) returns -1 and find of every
   other key that was found before returns the same data position as before. *)
C5_DeleteKeyKeepsOthers ==
    [][(DeleteKeyStep /\ last'.ret = 1)
       => (/\ Found(Cur', last'.key) = INVALID_POSITION
           /\ \A j \in Keys \ {last'.key} :
                 Found(Cur, j) # INVALID_POSITION => Found(Cur', j) = Found(Cur, j))]_vars

(* C6: in an index without UNIQUE whose leaf chain holds n >= 1 leaves of key
   k, deleteKey(k) returns true, takes all of them out of the chain, leaves
   every other leaf in it, and k is not found afterwards. *)
C6_DeleteKeyRemovesRun ==
    [][(/\ DeleteKeyStep
        /\ ~isUnique(Cur)
        /\ \E i \in DOMAIN Chain(Cur) : KeyOf(Cur, Chain(Cur)[i]) = last'.key)
       => (/\ last'.ret = 1
           /\ Chain(Cur') = SelectSeq(Chain(Cur), LAMBDA p : KeyOf(Cur, p) # last'.key)
           /\ Found(Cur', last'.key) = INVALID_POSITION)]_vars

(* C7: after any sequence of append and deleteKey calls on a UNIQUE index,
   find(k) returns the value of the last successful append of k if k was not
   deleted since, and -1 otherwise. *)
C7_UniqueAppendDeleteHistory ==
    (isUnique(Cur) /\ model.kinds \subseteq {"append", "reappend", "deleteKey"})
       => \A k \in Keys :
             Found(Cur, k) = IF model.live[k] # 0 THEN model.live[k] ELSE INVALID_POSITION

(* C8: with the cursor on a real leaf, deleteCurrent returns the dataPos of
   that leaf, takes exactly that leaf out of the chain, leaves every other leaf
   as it was, and every key found through another leaf is still found. *)
C8_DeleteCurrentRemovesOneLeaf ==
    [][(DeleteCurrentStep /\ OnRealLeaf)
       => (/\ last'.ret = leaves[position.currentLeave].dataPos
           /\ Chain(Cur') = SelectSeq(Chain(Cur), LAMBDA p : p # position.currentLeave)
           /\ \A p \in Range(Chain(Cur')) :
                 /\ leaves'[p].key = leaves[p].key
                 /\ leaves'[p].dataPos = leaves[p].dataPos
           /\ \A j \in Keys :
                 (/\ Found(Cur, j) # INVALID_POSITION
                  /\ find(Cur, j).S.pos.currentLeave # position.currentLeave)
                 => Found(Cur', j) = Found(Cur, j))]_vars

(* The lock is held by at most one thread, and only its holder is inside an
   operation. *)
MutualExclusion ==
    \A t \in Threads : threads[t].pc = "locked" <=> owner = t

(* C9: calls made by several threads take effect one at a time under the
   lock; when the threads have made all their calls and the calls that changed
   the index were appends of pairwise distinct keys, every append returned true
   and every key is found with its value. *)
C9_ConcurrentDistinctAppends ==
    /\ MutualExclusion
    /\ (/\ owner = 0
        /\ DistinctAppendsOnly
        /\ \A t \in Threads : threads[t].n = MaxThreadCalls)
       => \A k \in model.seen : model.live[k] # 0 /\ Found(Cur, k) = model.live[k]

(* C10: while an error is latched, every public operation returns its failure
   value and leaves the file, the descriptors and the cursor as they are;
   clearError takes the latch off. *)
C10_LatchedCallsShortCircuit ==
    errorCode # "OK" =>
       /\ \A attributes \in AttrChoices, numItems \in MinItems..MaxItems :
             initIndex(Cur, attributes, numItems, BulkNodes, BulkLeaves) = Cur
       /\ setActiveIndex(Cur, 1) = Cur
       /\ flushIndex(Cur) = Cur
       /\ flushFile(Cur) = Cur
       /\ \A k \in Keys :
             /\ append(Cur, k, NewDataPos) = [S |-> Cur, ret |-> FALSE]
             /\ find(Cur, k) = [S |-> Cur, ret |-> INVALID_POSITION]
             /\ deleteKey(Cur, k) = [S |-> Cur, ret |-> FALSE]
       /\ deleteCurrent(Cur) = [S |-> Cur, ret |-> INVALID_POSITION]
       /\ getFirst(Cur) = [S |-> Cur, ret |-> INVALID_POSITION, key |-> 0]
       /\ getNext(Cur) = [S |-> Cur, ret |-> INVALID_POSITION, key |-> 0]
       /\ getPrev(Cur) = [S |-> Cur, ret |-> INVALID_POSITION, key |-> 0]
       /\ getCurrent(Cur) = [S |-> Cur, ret |-> INVALID_POSITION, key |-> 0]
       /\ clearError(Cur) = [Cur EXCEPT !.err = "OK"]

(* C10, reached: a call was made under the latch, clearError was called, and
   an append made after it went through. *)
C10_Witness ==
    /\ {"latched", "clearError"} \subseteq model.kinds
    /\ last.op = "append"
    /\ last.pre = "OK"
    /\ last.ret = 1
    /\ errorCode = "OK"

(* C11: closing the handle and re-opening the file yields a handle on which,
   for every index, every find and the complete getFirst/getNext traversal
   return what they returned on the handle before the close. *)
C11_ReopenEquivalence ==
    AnswersOf(closeAndReopen(Cur)) = AnswersOf(Cur)

(* C11, reached: the file was re-opened after a node split and a delete, and a
   key is found on the new handle. *)
C11_Witness ==
    /\ last.op = "reopen"
    /\ storedInfo = info
    /\ nops = MaxMultiOps
    /\ info.numLevels >= 2
    /\ \E k \in Keys : Found(Cur, k) # INVALID_POSITION

(* C12: a call made while index i is active leaves the descriptor, the
   cursor, the tree, the leaf chain and the free lists of every other index
   of the file as they were; when the call changed index i, the finds and the
   traversal of the other indexes answer as before; and switching to another
   index and back gives the cursor that was left.  (When no block of the file
   changed, the blocks of the other indexes are as they were.) *)
C12_OtherIndexesUntouched ==
    /\ [](\A j \in IndexNos :
            setActiveIndex(setActiveIndex(Cur, j + 1), currentIndex + 1) = Cur)
    /\ [][(currentIndex' = currentIndex /\ ~Reopen)
          => \A j \in IndexNos \ {currentIndex} :
                /\ inactive'[j] = inactive[j]
                /\ (nodes' # nodes \/ leaves' # leaves)
                      => Structure(setActiveIndex(Cur', j + 1))
                            = Structure(setActiveIndex(Cur, j + 1))
                /\ nops' = nops + 1 => AnswersOf(Cur')[j] = AnswersOf(Cur)[j]]_vars

(* C12, reached: index 1 is active and holds a key, index 0 holds a key and
   its cursor is on a leaf, and all the calls were made. *)
C12_Witness ==
    /\ currentIndex = 1
    /\ nops = MaxMultiOps
    /\ Len(Chain(Cur)) >= 1
    /\ Len(Chain(setActiveIndex(Cur, 1))) >= 1
    /\ inactive[0].pos.currentLeave # INVALID_POSITION
    /\ errorCode = "OK"

(* C13: deleteKey(k) for a key that has no leaf in the active index (no leaf
   of the chain holds k and no routing entry matches k, so find(k) is -1)
   returns false, latches no error, and the traversal returns the same
   (key, dataPos) pairs in the same order as before. *)
C13_DeleteAbsentKey ==
    [][(/\ DeleteKeyStep
        /\ errorCode = "OK"
        /\ \A i \in DOMAIN Chain(Cur) : KeyOf(Cur, Chain(Cur)[i]) # last'.key
        /\ Found(Cur, last'.key) = INVALID_POSITION)
       => (/\ last'.ret = 0
           /\ errorCode' = "OK"
           /\ Traverse(Cur') = Traverse(Cur))]_vars

(* C13, reached: deleteKey of a key that is neither in the chain nor found
   was called on a tree of two levels holding other keys. *)
C13_Witness ==
    /\ last.op = "deleteKey"
    /\ last.pre = "OK"
    /\ last.ret = 0
    /\ info.numLevels >= 2
    /\ Len(Traverse(Cur)) >= 2
    /\ \A i \in DOMAIN Chain(Cur) : KeyOf(Cur, Chain(Cur)[i]) # last.key
    /\ Found(Cur, last.key) = INVALID_POSITION

(* C14: deleteCurrent called while the cursor is unset or on the EOF sentinel
   leaf returns -1 and changes nothing in the file, the descriptor or the
   cursor. *)
C14_DeleteCurrentAtSentinel ==
    [][(/\ DeleteCurrentStep
        /\ errorCode = "OK"
        /\ \/ position.currentLeave = INVALID_POSITION
           \/ position.currentLeave = info.lastLeave)
       => (last'.ret = INVALID_POSITION /\ Cur' = Cur)]_vars

(* C14, reached: deleteCurrent was called with the cursor on the sentinel,
   where a find for a key greater than every key of the index left it. *)
C14_Witness ==
    /\ last.op = "deleteCurrent"
    /\ last.pre = "OK"
    /\ last.ret = INVALID_POSITION
    /\ position.currentLeave = info.lastLeave
    /\ Len(Chain(Cur)) >= 2
    /\ \A i \in DOMAIN Chain(Cur) : KeyOf(Cur, Chain(Cur)[i]) < MaxKey

(* C15: find(k) for a key that no leaf holds returns -1, latches no error and
   leaves the cursor on the leaf with the smallest key greater than k (the EOF
   sentinel when there is none), with the links of that leaf, so that
   getCurrent returns the data position of that leaf. *)
C15_FindMissPositionsCursor ==
    (errorCode = "OK" /\ Initialised)
    => \A k \in Keys \ ChainKeys(Cur) :
          With([r \in {find(Cur, k)} |->
             /\ r.ret = INVALID_POSITION
             /\ Ok(r.S)
             /\ r.S.pos.currentLeave = LeafAbove(Cur, k)
             /\ r.S.pos.nextLeave = leaves[LeafAbove(Cur, k)].next
             /\ r.S.pos.prevLeave = leaves[LeafAbove(Cur, k)].prev
             /\ getCurrent(r.S).ret = leaves[LeafAbove(Cur, k)].dataPos])

----------------------------------------------------------------------------
(* End-of-file and begin-of-file tests against the links of the cursor leaf *)

(* isEOF and isBOF of S agree with the links the cursor holds: nextLeave absent
   or the EOF sentinel, prevLeave absent or the cursor on firstLeave *)
FlagsMatchLinks(S) ==
    /\ isEOF(S) <=> (S.pos.nextLeave = INVALID_POSITION
                      \/ S.pos.nextLeave = S.info.lastLeave)
    /\ isBOF(S) <=> (S.pos.prevLeave = INVALID_POSITION
                      \/ S.pos.currentLeave = S.info.firstLeave)

(* The call left the cursor on a leaf, holding the links stored in that leaf *)
Positioned(S) ==
    /\ Ok(S)
    /\ S.pos.currentLeave # INVALID_POSITION
    /\ S.pos.nextLeave = LeaveAt(S, S.pos.currentLeave).next
    /\ S.pos.prevLeave = LeaveAt(S, S.pos.currentLeave).prev

(* C16: after every operation that positions the cursor (find, getFirst,
   getNext, getPrev, getCurrent, an accepted append, a deleteKey or
   deleteCurrent that removed a leaf), isEOF() is true exactly when the next
   link of the cursor leaf is absent or is lastLeave, and isBOF() is true
   exactly when its prev link is absent or the cursor leaf is firstLeave; with
   one key appended getFirst gives both, with two keys appended getFirst gives
   BOF only and the following getNext gives EOF only. *)
C16_FlagsFollowLinks ==
    /\ []((errorCode = "OK" /\ Initialised) =>
          /\ \A k \in Keys :
                With([r \in {find(Cur, k)} |->
                   (Ok(r.S) /\ r.S.pos.currentLeave # INVALID_POSITION)
                      => (Positioned(r.S) /\ FlagsMatchLinks(r.S))])
          /\ \A r \in {getFirst(Cur), getNext(Cur), getPrev(Cur), getCurrent(Cur)} :
                (r.ret # INVALID_POSITION /\ Ok(r.S))
                   => (Positioned(r.S) /\ FlagsMatchLinks(r.S))
          /\ (DistinctAppendsOnly /\ Len(LiveKeys) = 1) =>
                With([r \in {getFirst(Cur)} |-> isBOF(r.S) /\ isEOF(r.S)])
          /\ (DistinctAppendsOnly /\ Len(LiveKeys) = 2) =>
                With([r \in {getFirst(Cur)} |->
                   /\ isBOF(r.S) /\ ~isEOF(r.S)
                   /\ With([n \in {getNext(r.S)} |-> isEOF(n.S) /\ ~isBOF(n.S)])]))
    /\ [][(/\ \/ AppendStep /\ last'.ret = 1
              \/ DeleteKeyStep /\ last'.ret = 1
              \/ DeleteCurrentStep /\ last'.ret # INVALID_POSITION
           /\ last'.pre = "OK"
           /\ errorCode' = "OK"
           /\ position'.currentLeave # INVALID_POSITION)
          => FlagsMatchLinks(Cur')]_vars

C16_Witness ==
    /\ errorCode = "OK"
    /\ DistinctAppendsOnly
    /\ Len(LiveKeys) = 2
    /\ Len(Chain(Cur)) = 2
    /\ position.currentLeave = Chain(Cur)[2]
    /\ position.nextLeave = info.lastLeave
    /\ isEOF(Cur) /\ ~isBOF(Cur)
    /\ getNext(Cur).ret = INVALID_POSITION

(* C17: on an index that holds no user keys (freshly initialised, or after
   every key has been deleted: firstLeave is the EOF sentinel) isBOF() and
   isEOF() both return true. *)
C17_EmptyIndexAtBothEnds ==
    (errorCode = "OK" /\ Initialised /\ info.firstLeave = info.lastLeave)
       => (isBOF(Cur) /\ isEOF(Cur))

(* C18: after flushIndex or flushFile returned without error, every index
   descriptor stored in the file equals the one in memory (free-list heads,
   numLevels, rootNode, firstLeave, lastLeave), and a handle opened on the file
   as it then is answers every find and the traversal like the live handle. *)
C18_FlushPersistsDescriptors ==
    (errorCode = "OK" /\ Initialised) =>
       \A F \in {flushIndex(Cur), flushFile(Cur)} :
          Ok(F) => /\ F.stored = F.info
                   /\ \A i \in DOMAIN F.rest : F.rest[i].stored = F.rest[i].info
                   /\ AnswersOf(openFile(F)) = AnswersOf(F)

(* C19: initIndex called with a branching factor below MinItems is rejected
   with an InitError and creates no sentinel leaf, no root node and no
   free-list blocks for the index.  (numItems = 0 overruns the node block that
   createFirstNode fills; the formula states the calls whose outcome the
   language defines.) *)
C19_InitIndexRejectsSmallOrder ==
    (errorCode = "OK" /\ ~Initialised) =>
       \A numItems \in 1..(MinItems - 1) :
          With([S \in {initIndex(Cur, ALLOW_DELETE, numItems, BulkNodes, BulkLeaves)} |->
             /\ S.err = "INIT_ERROR"
             /\ S.nodes = nodes
             /\ S.leaves = leaves
             /\ S.size = fileSize
             /\ S.info.numLevels = 0
             /\ S.info.rootNode = INVALID_POSITION
             /\ S.info.freeNode = INVALID_POSITION
             /\ S.info.freeLeave = INVALID_POSITION])

(* C20: every allocateSpace call returns a position that no other allocation
   not yet freed has received: two allocations, consecutive in one thread or
   made by different threads, with or without a write in between, never
   receive the same position. *)
C20_AllocationsDistinct ==
    \A i, j \in DOMAIN heap.live :
       i # j => heap.live[i].pos # heap.live[j].pos

(* C21: after any sequence of append, deleteKey and deleteCurrent, for every
   interior-node entry (k, c) the greatest key stored in the subtree under c
   equals k; at the bottom interior level the leaf at c carries key k. *)
C21_RoutingKeysAreSubtreeMaxima ==
    (errorCode = "OK" /\ Initialised) => RoutingHolds(Cur, info.rootNode, info.numLevels)

(* C22: after any sequence of operations the entries of every interior node
   are in ascending routing-key order, strictly ascending in a UNIQUE index,
   and the order continues across the nodes of a level from left to right; a
   split triggered by a key that belongs before the last entry of the full
   node places the new key in the half where it belongs. *)
C22_NodeEntriesAscend ==
    (errorCode = "OK" /\ Initialised) =>
       \A pos \in TreeNodes(Cur, info.rootNode, info.numLevels) :
          NodeOrdered(Cur, pos, HasBit(info.attributes, UNIQUE))

(* C23: after any sequence of operations, for every pair of adjacent leaves
   a, b of the chain with a.next = b (b may be the EOF sentinel),
   compare(a.key, b.key) <= 0, and < 0 in a UNIQUE index. *)
C23_AdjacentLeavesAscend ==
    (errorCode = "OK" /\ Initialised) =>
       \A a \in Range(Chain(Cur)) :
          leaves[a].next \in DOMAIN leaves =>
             IF HasBit(info.attributes, UNIQUE)
             THEN Compare(leaves[a].key, leaves[leaves[a].next].key) < 0
             ELSE Compare(leaves[a].key, leaves[leaves[a].next].key) <= 0

(* C24: after any sequence of operations, following next from firstLeave
   reaches every live leaf exactly once and ends at the EOF sentinel
   (lastLeave); following prev from lastLeave visits the same leaves in the
   reverse order and ends at firstLeave, whose prev link is absent. *)
C24_LeafChainDoublyLinked ==
    (errorCode = "OK" /\ Initialised) =>
       LET forward == Chain(Cur) \o <<info.lastLeave>>
           backward == BackFrom(Cur, info.lastLeave, Cardinality(DOMAIN leaves) + 1)
       IN /\ info.lastLeave \in DOMAIN leaves
          /\ \A i \in 1..(Len(forward) - 1) : leaves[forward[i]].next = forward[i + 1]
          /\ forward[1] = info.firstLeave
          /\ \A i, j \in DOMAIN forward : i # j => forward[i] # forward[j]
          /\ Range(Chain(Cur)) = LiveLeaves(Cur)
          /\ Len(backward) = Len(forward)
          /\ \A i \in DOMAIN backward : backward[i] = forward[Len(forward) + 1 - i]
          /\ leaves[info.firstLeave].prev = INVALID_POSITION

(* C25: after any sequence of operations no block is both on a free list and
   referenced by the tree (as rootNode, child position, sibling link, leaf-chain
   link, firstLeave or lastLeave), no block occurs twice on a free list, and
   allocation never returns a block that is still in use. *)
C25_FreeListsDisjointFromTree ==
    (errorCode = "OK" /\ Initialised) =>
       /\ FreeList(nodes, info.freeNode, Cardinality(DOMAIN nodes)) \cap UsedNodes(Cur) = {}
       /\ FreeList(leaves, info.freeLeave, Cardinality(DOMAIN leaves)) \cap UsedLeaves(Cur) = {}
       /\ FreeListEnds(nodes, info.freeNode, Cardinality(DOMAIN nodes))
       /\ FreeListEnds(leaves, info.freeLeave, Cardinality(DOMAIN leaves))
       /\ allocateNode(Cur).pos \notin UsedNodes(Cur)
       /\ allocateLeave(Cur).pos \notin UsedLeaves(Cur)

(* C26: after every public operation the cursor of the index is either unset
   or its currentLeave is a leaf of the chain (the EOF sentinel included), never
   a block of the free list, and the nextLeave, prevLeave and currentDataPos it
   holds equal the links and the data position stored in that leaf; this
   includes the state after an append rejected as a duplicate. *)
C26_CursorOnChainLeaf ==
    (errorCode = "OK" /\ Initialised /\ position.currentLeave # INVALID_POSITION) =>
       /\ position.currentLeave \in Range(Chain(Cur)) \cup {info.lastLeave}
       /\ position.currentLeave \notin
             FreeList(leaves, info.freeLeave, Cardinality(DOMAIN leaves))
       /\ position.nextLeave = LeaveAt(Cur, position.currentLeave).next
       /\ position.prevLeave = LeaveAt(Cur, position.currentLeave).prev
       /\ position.currentDataPos = LeaveAt(Cur, position.currentLeave).dataPos

(* C27: an append that is rejected as a UNIQUE duplicate leaves the tree as it
   was before the call: the same leaves in the same chain order with the same
   links, the same interior-node contents, and the same firstLeave, lastLeave,
   rootNode and numLevels. *)
C27_RejectedAppendLeavesTree ==
    [][(/\ AppendStep
        /\ last'.pre = "OK"
        /\ errorCode' = "OK"
        /\ last'.ret = 0
        /\ HasBit(info.attributes, UNIQUE)
        /\ last'.key \in ChainKeys(Cur))
       => TreeShape(Cur') = TreeShape(Cur)]_vars

(* C28: after any sequence of append, deleteKey and deleteCurrent, and after a
   further deleteKey or append whose key equals the sentinel's own key, the EOF
   sentinel created by initIndex is still lastLeave with no successor and
   dataPos -1, is still addressed by the rightmost bottom-level routing entry,
   and has not been freed. *)
C28_SentinelStaysLast ==
    (errorCode = "OK" /\ Initialised) =>
       /\ SentinelInPlace(Cur)
       /\ With([d \in {deleteKey(Cur, EOFKey)} |-> Followed(d.S) => SentinelInPlace(d.S)])
       /\ With([a \in {append(Cur, EOFKey, NewDataPos)} |-> Followed(a.S) => SentinelInPlace(a.S)])

(* C29: for every key type and every key a caller can pass, compare(key,
   sentinelKey) <= 0, sentinelKey being the key fillEOFKey writes for the
   type. *)
C29_NoKeyAboveSentinel == probe.pc = "done" => probe.result <= 0

(* C30: after any sequence of operations every interior node reachable from
   the root holds between 1 and M entries, and no node block of the file holds
   more than M entries, whichever step wrote it (simple insert, redistribution
   into the right sibling, split, borrow, merge). *)
C30_NodeFillWithinBounds ==
    (errorCode = "OK" /\ Initialised) =>
       /\ \A pos \in TreeNodes(Cur, info.rootNode, info.numLevels) :
             Len(nodes[pos].items) \in 1..info.maxItems
       /\ \A pos \in DOMAIN nodes : Len(nodes[pos].items) <= info.maxItems

(* A deleteKey has merged a node into its right sibling, in a tree that a split
   gave two levels *)
C30_Witness ==
    /\ errorCode = "OK"
    /\ last.op = "deleteKey" /\ last.ret = 1 /\ last.val >= 1
    /\ info.numLevels >= 2
    /\ info.freeNode \in DOMAIN nodes

(* C31: with M = 3 and ALLOW_DELETE, after the keys 1..50 are appended and
   after deleteKey is then called for every odd-numbered key, every interior
   node other than the root holds at least ceil(M / 2) entries. *)
C31_NonRootNodesHalfFull ==
    (errorCode = "OK" /\ (LoadDone \/ OddDeleted)) =>
       \A pos \in TreeNodes(Cur, info.rootNode, info.numLevels) \ {info.rootNode} :
          Len(nodes[pos].items) >= MinFill(info.maxItems)

(* C32: after any sequence of operations numLevels >= 1 and every path from
   rootNode down passes through exactly numLevels interior nodes and ends in a
   leaf: all leaves are at the same depth. *)
C32_LeavesAtOneDepth ==
    (errorCode = "OK" /\ Initialised) =>
       info.numLevels >= 1 /\ UniformDepth(Cur, info.rootNode, info.numLevels)

(* C33: no sequence of append, deleteKey and deleteCurrent on an initialised
   index, absent I/O failures, leaves a block with a bad checksum or a live leaf
   that is not reachable from firstLeave, and the number of leaves on the chain
   is the number of successful appends minus the number of leaves deleted, plus
   the sentinel: a successful append adds one leaf to the chain, a successful
   deleteCurrent takes one off, a successful deleteKey takes off the leaves of
   its key, and a call that fails leaves the chain as long as it was. *)
C33_ChainHoldsEveryLiveLeaf ==
    [][(errorCode = "OK" /\ errorCode' = "OK" /\ Initialised /\ nops' = nops + 1) =>
          /\ damaged' = {}
          /\ LiveLeaves(Cur') \subseteq Range(Chain(Cur'))
          /\ Len(Chain(Cur')) - Len(Chain(Cur)) =
                CASE last'.op = "append" /\ last'.ret = 1 -> 1
                  [] last'.op = "deleteCurrent" /\ last'.ret # INVALID_POSITION -> -1
                  [] last'.op = "deleteKey" /\ last'.ret = 1 ->
                        0 - Cardinality({q \in Range(Chain(Cur)) :
                                            KeyOf(Cur, q) = last'.key})
                  [] OTHER -> 0]_vars

(* The data positions getFirst and repeated getNext return for key k, in the
   order they return them *)
DataWithKey(S, k) ==
    LET HasKey(e) == e.key = k
        hits == SelectSeq(Traverse(S), HasKey)
    IN [i \in DOMAIN hits |-> hits[i].dataPos]

(* C34: in an index that is not UNIQUE, leaves with equal keys appear in the
   leaf chain, and are returned by getFirst/getNext, in the order in which
   they were appended: appending a key the index holds puts the new data
   position after those the traversal already returns for that key. *)
C34_EqualKeysInAppendOrder ==
    (errorCode = "OK" /\ Initialised /\ ~HasBit(info.attributes, UNIQUE)) =>
       \A k \in ChainKeys(Cur) \cap Keys :
          With([a \in {append(Cur, k, NewDataPos)} |->
             Followed(a.S) =>
                DataWithKey(a.S, k) = Append(DataWithKey(Cur, k), NewDataPos)])

(* The entries of the bottom-level nodes under pos, pos being level levels
   above the leaves *)
RECURSIVE BottomEntries(_, _, _)
BottomEntries(S, pos, level) ==
    IF level < 1 \/ pos \notin DOMAIN S.nodes THEN {}
    ELSE IF level = 1 THEN Range(S.nodes[pos].items)
    ELSE UNION {BottomEntries(S, S.nodes[pos].items[i].child, level - 1) :
                   i \in DOMAIN S.nodes[pos].items}

(* The leaves of the chain of S that hold key k *)
LeavesWithKey(S, k) == {q \in Range(Chain(S)) : KeyOf(S, q) = k}

(* C35: in an index that is not UNIQUE and holds several leaves of one key k,
   after deleteCurrent has removed any one of them find(k) still succeeds and
   returns the data position of a remaining leaf of k, and the bottom-level
   routing entry for k addresses a live leaf with key k. *)
C35_DeleteCurrentKeepsEqualKeyFindable ==
    (/\ errorCode = "OK" /\ Initialised /\ ~HasBit(info.attributes, UNIQUE)
     /\ position.currentLeave \in Range(Chain(Cur))
     /\ Cardinality(LeavesWithKey(Cur, KeyOf(Cur, position.currentLeave))) >= 2) =>
       LET k == KeyOf(Cur, position.currentLeave)
           remaining == LeavesWithKey(Cur, k) \ {position.currentLeave}
       IN With([d \in {deleteCurrent(Cur)} |->
             Followed(d.S) =>
                /\ d.ret # INVALID_POSITION
                /\ LeavesWithKey(d.S, k) = remaining
                /\ find(d.S, k).ret \in {d.S.leaves[q].dataPos : q \in remaining}
                /\ \E e \in BottomEntries(d.S, d.S.info.rootNode, d.S.info.numLevels) :
                      e.key = k /\ e.child \in remaining])

(* Where the claim of C36 puts the cursor when the chain leaves removed are
   taken off the chain of S: on the first leaf after them unless that is the
   EOF sentinel, else on the leaf before them, else nowhere *)
CursorAfterRemoval(S, removed) ==
    LET full == Chain(S) \o <<S.info.lastLeave>>
        at == {i \in DOMAIN full : full[i] \in removed}
        hi == CHOOSE i \in at : \A j \in at : j <= i
        lo == CHOOSE i \in at : \A j \in at : j >= i
    IN IF full[hi + 1] # S.info.lastLeave THEN full[hi + 1]
       ELSE IF lo > 1 THEN full[lo - 1]
       ELSE INVALID_POSITION

(* C36: after deleteCurrent, and likewise deleteKey, has removed leaves, the
   cursor is on the first leaf after the removed ones if that leaf is not the
   EOF sentinel, otherwise on the leaf before them if there is one, otherwise
   unset; in every case the new cursor leaf is a live leaf of the chain. *)
C36_CursorAfterDelete ==
    [][(/\ errorCode = "OK" /\ errorCode' = "OK" /\ Initialised /\ nops' = nops + 1
        /\ \/ last'.op = "deleteCurrent" /\ last'.ret # INVALID_POSITION
           \/ last'.op = "deleteKey" /\ last'.ret = 1) =>
          LET removed == Range(Chain(Cur)) \ Range(Chain(Cur'))
          IN removed # {} =>
             /\ position'.currentLeave = CursorAfterRemoval(Cur, removed)
             /\ position'.currentLeave # INVALID_POSITION =>
                   /\ position'.currentLeave \in Range(Chain(Cur'))
                   /\ position'.currentLeave \notin
                         FreeList(leaves', info'.freeLeave, Cardinality(DOMAIN leaves'))]_vars

(* C37 as stated: with several threads sharing one handle, an operation that
   a thread issues after its own setActiveIndex(i) is applied to index i, even
   if another thread calls setActiveIndex(j) in between. *)
C37_OperationOnOwnSelection ==
    \A t \in Threads :
       (threads[t].pc = "idle" /\ threads[t].op = "append") =>
          threads[t].ret = threads[t].key

(* C37: an operation is applied to the index that the most recent
   setActiveIndex of any thread on the handle selected; m_currentIndex belongs
   to the handle, and each call takes the lock for itself only. *)
C37_OperationOnLatestSelection ==
    [][\A t \in Threads :
          (threads[t].pc = "selected" /\ threads'[t].pc = "idle") =>
             /\ last.op = "setActiveIndex"
             /\ threads'[t].ret = last.key]_vars

(* A thread has operated after another thread's setActiveIndex came between
   its own setActiveIndex and its operation *)
C37_Witness ==
    \E t \in Threads :
       /\ threads[t].pc = "idle" /\ threads[t].op = "append"
       /\ last.op = "setActiveIndex" /\ last.val # t /\ last.key # threads[t].key
       /\ threads[t].ret = last.key

(* C38: after any sequence of operations, at every interior level the nodes
   form a doubly-linked list through nextNode/prevNode that holds exactly the
   nodes reachable from the root at that level, in ascending key order, with
   prev links mirroring next links and no freed node on the list. *)
C38_SiblingListsMatchLevels ==
    (errorCode = "OK" /\ Initialised) =>
       \A depth \in 1..info.numLevels : SiblingListHolds(Cur, depth)

(* C39: for every bulk pre-allocation count the configuration allows, 0
   included, allocating a node or a leaf when the free list is empty yields a
   valid block position that was not in use before (never -1, and no read at an
   invalid position), and afterwards the free list is the remaining freshly
   appended blocks followed by the previous head.  In an index that is not yet
   created the allocations are those of initIndex with each pair of counts. *)
C39_AllocationYieldsFreshBlock ==
    errorCode = "OK" =>
       /\ ~Initialised =>
             \A freeCreateNodes \in 0..BulkNodes, freeCreateLeaves \in 0..BulkLeaves :
                With([S \in {initIndex(Cur, ALLOW_DELETE, MaxItems, freeCreateNodes,
                                       freeCreateLeaves)} |->
                   /\ S.err = "OK"
                   /\ S.info.rootNode \in DOMAIN S.nodes \ DOMAIN nodes
                   /\ S.info.lastLeave \in DOMAIN S.leaves \ DOMAIN leaves])
       /\ (Initialised /\ info.freeNode = INVALID_POSITION) =>
             With([a \in {allocateNode(Cur)} |->
                /\ a.S.err = "OK"
                /\ a.pos = fileSize
                /\ a.pos \notin DOMAIN nodes \cup DOMAIN leaves
                /\ FreeSeq(a.S.nodes, a.S.info.freeNode, Cardinality(DOMAIN a.S.nodes))
                      = FreshBlocks(fileSize + 1, info.freeCreateNodes - 1)])
       /\ (Initialised /\ info.freeLeave = INVALID_POSITION) =>
             With([a \in {allocateLeave(Cur)} |->
                /\ a.S.err = "OK"
                /\ a.pos = fileSize
                /\ a.pos \notin DOMAIN nodes \cup DOMAIN leaves
                /\ FreeSeq(a.S.leaves, a.S.info.freeLeave, Cardinality(DOMAIN a.S.leaves))
                      = FreshBlocks(fileSize + 1, info.freeCreateLeaves - 1)])

(* C40: binarySearchNode returns the smallest 1-based position whose key is
   >= the search key, with an exact-match flag, and numItems + 1 when every key
   of the node is smaller than the search key: the position the linear scan of
   the earlier insertKey stops at, so that a key greater than all entries of a
   node is inserted after the node's last entry. *)
C40_BinarySearchMatchesLinearScan ==
    probe.pc = "done" =>
       LET items == probe.node
           notBelow == {i \in 1..Len(items) : items[i].key >= probe.key}
           first == IF notBelow = {} THEN Len(items) + 1
                    ELSE CHOOSE i \in notBelow : \A j \in notBelow : i <= j
       IN /\ probe.found.keyNo = first
          /\ probe.found.exactMatch = (notBelow # {} /\ items[first].key = probe.key)
          /\ probe.found.keyNo = probe.scanned.keyNo
          /\ (notBelow = {} /\ Len(items) < MaxItems) =>
                insertItem(items, probe.found.keyNo, probe.key, 0)
                   = Append(items, [key |-> probe.key, child |-> 0])

====
